---- MODULE Spec2Model ----
(***************************************************************************)
(* Model of @vp-tw/nanostores-storage.                                     *)
(*                                                                         *)
(* Key store (createStorageStore): a reactive container bound to one       *)
(* storage key over an ordered chain of adapters.  Every public operation  *)
(* runs synchronously to completion, so each one is a single action.       *)
(*                                                                         *)
(* Adapters are indexed 1..Len(adapters); index 1 is the source's          *)
(* adapters[0], the primary adapter.  adapters[i] is what adapter i holds  *)
(* for the store's key (Null when the key is absent).                      *)
(*                                                                         *)
(* An adapter call may throw.  Which adapters throw during an operation    *)
(* is an input of the operation (the record f): f.get, f.set and f.remove  *)
(* are the sets of adapters whose get / set / remove throws.  A call that  *)
(* throws leaves the adapter's content unchanged.                          *)
(*                                                                         *)
(* $internalStore is a nanostores atom: atom.set(x) stores x and notifies  *)
(* its listeners synchronously, and does nothing when x is identical to    *)
(* the value already held.                                                 *)
(***************************************************************************)
EXTENDS Integers, Sequences, FiniteSets, TLC

\* Longest adapter chain explored.
MaxChain == 2

\* The strings a storage value can be.
Values == {"a", "b"}

\* JavaScript null.
Null == "null"

ValueOrNull == Values \cup {Null}

\* The key the store is bound to, and the keys a change event can name
\* (Null is the bulk event).
KEY == "k"
ChangedKeys == {KEY, "other", Null}

VARIABLES
    adapters,          \* adapters[i]: adapter i's value for KEY
    defaultValue,      \* options.defaultValue given at construction
    internalStore,     \* value of the $internalStore atom
    listenerOn,        \* value of the $on atom
    subs,              \* subs[i]: callbacks of this store subscribed on adapter i
    unsubscribeFns,    \* the adapters the pending unsubscribe thunks belong to
    isInternalUpdate,  \* the suppression flag
    pristine,          \* history: chain was empty at construction, and no set()
                       \* call and no out-of-band write has happened since
    faultFree,         \* history: no adapter has been set to throw so far
    phase,             \* history: "initial"; "stopped" once off() has ended a
                       \* subscription; "restarted" once on() has followed that
    last,              \* history: the operation that produced this state
    notifying,         \* the primary adapter calls its subscribers, synchronously,
                       \* from inside each of its own set and remove calls
    \* --- the values store (createStorageValuesStore) over one adapter ---
    storage,           \* what the adapter holds: a mapping from keys to values
    snapshot,          \* value of the values store's $internalStore atom
    dollarOn,          \* value of the values store's $on atom
    unsubscribe,       \* TRUE iff the unsubscribe handle is not null
    valuesSubs,        \* callbacks of the values store subscribed on the adapter
    valuesNotifying,   \* the adapter calls its subscribers, synchronously, after
                       \* each of its own completed setAll calls
    valuesPhase,       \* history, as phase: "initial", "stopped", "restarted"
    vlast,             \* history: the values-store operation that produced this state
    \* --- shallowEqual(a, b) ---
    eqA, eqB,          \* the two arguments
    eqDone,            \* TRUE once the function has returned for them
    eqResult,          \* what it returned
    \* --- createWebStorageAdapter(storage): subscriptions ---
    hasWindow,         \* TRUE in a browser; FALSE where `window` is not defined
    listeners,         \* the listeners Set, in insertion order
    attached,          \* handleStorageEvent is registered on window
    thunks,            \* the thunks subscribe has returned: the callback each one
                       \* closes over, and whether it has been called
    elast,             \* history: the subscription operation that produced this state
    \* --- createMemoryAdapter(initialData): two instances ---
    memory,            \* memory[i]: the Map of instance i, as its entries in order
    reference,         \* reference[i]: the finite map instance i stands for
    memListening,      \* a store has handed its callback to instance 1's subscribe
    memContainer,      \* the snapshot held by that store
    mlast,             \* history: the adapter operation that produced this state
    \* --- createWebStorageAdapter(storage): data operations ---
    items,             \* the Storage object's entries, in storage.key(i) order
    wlast              \* history: the adapter operation that produced this state

keyVars == <<adapters, defaultValue, internalStore, listenerOn, subs, unsubscribeFns,
             isInternalUpdate, pristine, faultFree, phase, last, notifying>>

valuesVars == <<storage, snapshot, dollarOn, unsubscribe, valuesSubs, valuesPhase,
               vlast, valuesNotifying>>

vars == <<adapters, defaultValue, internalStore, listenerOn, subs, unsubscribeFns,
          isInternalUpdate, pristine, faultFree, phase, last, notifying,
          storage, snapshot, dollarOn, unsubscribe, valuesSubs, valuesPhase, vlast,
          valuesNotifying,
          eqA, eqB, eqDone, eqResult,
          hasWindow, listeners, attached, thunks, elast,
          memory, reference, memListening, memContainer, mlast,
          items, wlast>>

eqVars == <<eqA, eqB, eqDone, eqResult>>

\* the adapters and utilities that have a specification of their own
eventVars == <<hasWindow, listeners, attached, thunks, elast>>

memVars == <<memory, reference, memListening, memContainer, mlast>>

webVars == <<items, wlast>>

utilVars == <<eqVars, eventVars, memVars, webVars>>

\* A specification of one component keeps the other components' variables
\* at rest.
EqIdle ==
    /\ eqA = <<>>
    /\ eqB = <<>>
    /\ eqDone = FALSE
    /\ eqResult = FALSE

EventIdle ==
    /\ hasWindow = FALSE
    /\ listeners = <<>>
    /\ attached = FALSE
    /\ thunks = {}
    /\ elast = [op |-> "none"]

MemIdle ==
    /\ memory = <<>>
    /\ reference = <<>>
    /\ memListening = FALSE
    /\ memContainer = <<>>
    /\ mlast = [op |-> "none"]

WebIdle ==
    /\ items = <<>>
    /\ wlast = [op |-> "none"]

UtilIdle == EqIdle /\ EventIdle /\ MemIdle /\ WebIdle

ValuesIdle ==
    /\ storage = <<>>
    /\ snapshot = <<>>
    /\ dollarOn = FALSE
    /\ unsubscribe = FALSE
    /\ valuesSubs = 0
    /\ valuesPhase = "initial"
    /\ vlast = [op |-> "none"]
    /\ valuesNotifying = FALSE

KeyIdle ==
    /\ adapters = <<>>
    /\ defaultValue = "null"
    /\ internalStore = "null"
    /\ listenerOn = FALSE
    /\ subs = <<>>
    /\ unsubscribeFns = <<>>
    /\ isInternalUpdate = FALSE
    /\ pristine = TRUE
    /\ faultFree = TRUE
    /\ phase = "initial"
    /\ last = [op |-> "none"]
    /\ notifying = FALSE

NoFaults == [get |-> {}, set |-> {}, remove |-> {}]

\* A broadcast stops at the first throw, so one throwing set (or remove)
\* covers every way a broadcast can fail; a read goes on after a throwing
\* get, so any set of adapters may throw on get.
AtMostOne(n) == {{}} \cup {{i} : i \in 1..n}
GetFaults(n) == [get : SUBSET (1..n), set : {{}}, remove : {{}}]
RemoveFaults(n) == [get : {{}}, set : {{}}, remove : AtMostOne(n)]
SetFaults(n) == [get : SUBSET (1..n), set : AtMostOne(n), remove : {{}}]

----------------------------------------------------------------------------
(* Chain resolution.                                                       *)

\* adapter.get(key) on adapter i: its value, or a throw.
adapterGet(chain, i, getF) ==
    IF i \in getF THEN [threw |-> TRUE, value |-> Null]
                  ELSE [threw |-> FALSE, value |-> chain[i]]

RECURSIVE readFrom(_, _, _)
readFrom(chain, i, getF) ==
    IF i > Len(chain) THEN [threw |-> FALSE, value |-> Null]
    ELSE LET r == adapterGet(chain, i, getF)
         IN  IF r.threw THEN readFrom(chain, i + 1, getF)      \* catch: next adapter
             ELSE IF r.value # Null THEN r
             ELSE readFrom(chain, i + 1, getF)

\* A read that scans the chain from its end.
readFromAdapters_LastWins(chain, getF) ==
    LET held == {i \in DOMAIN chain : i \notin getF /\ chain[i] # Null}
    IN  IF held = {} THEN [threw |-> FALSE, value |-> Null]
        ELSE [threw |-> FALSE,
              value |-> chain[CHOOSE i \in held : \A j \in held : j <= i]]

\* A read without the try/catch around adapter.get: the first throw ends it.
RECURSIVE readFrom_NoCatch(_, _, _)
readFrom_NoCatch(chain, i, getF) ==
    IF i > Len(chain) THEN [threw |-> FALSE, value |-> Null]
    ELSE LET r == adapterGet(chain, i, getF)
         IN  IF r.threw THEN r
             ELSE IF r.value # Null THEN r
             ELSE readFrom_NoCatch(chain, i + 1, getF)

readFromAdapters_NoCatch(chain, getF) == readFrom_NoCatch(chain, 1, getF)

\* First non-null value in chain order; a throwing get is skipped.  The
\* result is [value, threw]; threw is what the caller would see raised.
readFromAdapters(chain, getF) == readFrom(chain, 1, getF)

RECURSIVE writeFrom(_, _, _, _)
writeFrom(s, i, value, setF) ==
    IF i > Len(s.adapters) THEN s
    ELSE LET called == [s EXCEPT !.calls = Append(@, [a |-> i, m |-> "set", v |-> value])]
         IN  IF i \in setF
             THEN [called EXCEPT !.threw = TRUE]
             ELSE writeFrom([called EXCEPT !.adapters[i] = value], i + 1, value, setF)

\* A broadcast write that catches a throwing set and goes on to the next
\* adapter.
writeToAdapters_BestEffort(s, value, setF) ==
    [s EXCEPT !.adapters = [i \in DOMAIN s.adapters |->
                              IF i \in setF THEN s.adapters[i] ELSE value],
              !.calls = @ \o [i \in DOMAIN s.adapters |->
                                [a |-> i, m |-> "set", v |-> value]]]

\* adapter.set(key, value) on every adapter in order; a throw propagates.
writeToAdapters(s, value, setF) == writeFrom(s, 1, value, setF)

RECURSIVE removeFrom(_, _, _, _)
removeFrom(s, i, n, removeF) ==
    IF i > n THEN s
    ELSE LET called == [s EXCEPT !.calls = Append(@, [a |-> i, m |-> "remove", v |-> Null])]
         IN  IF i \in removeF
             THEN [called EXCEPT !.threw = TRUE]
             ELSE removeFrom([called EXCEPT !.adapters[i] = Null], i + 1, n, removeF)

\* A remove that reaches the primary adapter only.
removeFromAdapters_PrimaryOnly(s, removeF) == removeFrom(s, 1, 1, removeF)

\* adapter.remove(key) on every adapter in order; a throw propagates.
removeFromAdapters(s, removeF) == removeFrom(s, 1, Len(s.adapters), removeF)

----------------------------------------------------------------------------
(* The store.  s is the store's state during an operation: adapters,       *)
(* defaultValue, internalStore, isInternalUpdate, on, subs,                *)
(* unsubscribeFns, and calls / threw: the adapter writes made so far and   *)
(* whether the operation has thrown.                                       *)

\* A listener that mirrors every non-null commit, whatever its origin.
listener_AlwaysWrite(s, value, f) ==
    IF value # Null THEN writeToAdapters(s, value, f.set) ELSE s

\* A listener that mirrors every non-null commit of the store's own without
\* comparing it with what the chain reports.
listener_NoCompare(s, value, f) ==
    IF s.isInternalUpdate THEN s
    ELSE IF value # Null THEN writeToAdapters(s, value, f.set)
    ELSE s

\* The callback registered with $internalStore.listen.
listener(s, value, f) ==
    IF s.isInternalUpdate THEN s
    ELSE LET storageValue == readFromAdapters(s.adapters, f.get)
         IN  IF storageValue.threw THEN [s EXCEPT !.threw = TRUE]
             ELSE IF value # Null /\ value # storageValue.value
             THEN writeToAdapters(s, value, f.set)
             ELSE s

\* $internalStore.set(newValue): no-op on an identical value, otherwise
\* store it and run the listener.
atomSet(s, newValue, f) ==
    IF s.internalStore = newValue THEN s
    ELSE listener([s EXCEPT !.internalStore = newValue], newValue, f)

get(s) == s.internalStore

\* $value = computed($internalStore, v => v); this is $value.get().
dollarValue(s) == s.internalStore

\* A set that writes the chain and leaves the container to the next sync.
set_StorageOnly(s, value, f) == writeToAdapters(s, value, f.set)

set(s, value, f) == atomSet(s, value, f)

\* A remove that resets the container whether or not the removal threw.
remove_AlwaysReset(s, f) ==
    LET removed == removeFromAdapters(s, f.remove)
        t == atomSet([removed EXCEPT !.isInternalUpdate = TRUE], Null, f)
    IN  [t EXCEPT !.isInternalUpdate = FALSE]

remove(s, f) ==
    LET removed == removeFromAdapters(s, f.remove)
    IN  IF removed.threw THEN removed
        ELSE LET t == atomSet([removed EXCEPT !.isInternalUpdate = TRUE], Null, f)
             IN  [t EXCEPT !.isInternalUpdate = FALSE]            \* finally

\* A sync that falls back to defaultValue on an empty backend.
sync_ApplyDefault(s, f) ==
    LET r == readFromAdapters(s.adapters, f.get)
        newValue == IF r.value # Null THEN r.value ELSE s.defaultValue
    IN  IF newValue = s.internalStore THEN s
        ELSE LET t == atomSet([s EXCEPT !.isInternalUpdate = TRUE], newValue, f)
             IN  [t EXCEPT !.isInternalUpdate = FALSE]

sync(s, f) ==
    LET newValue == readFromAdapters(s.adapters, f.get)
    IN  IF newValue.threw THEN [s EXCEPT !.threw = TRUE]
        ELSE IF newValue.value = s.internalStore THEN s
        ELSE LET t == atomSet([s EXCEPT !.isInternalUpdate = TRUE], newValue.value, f)
             IN  [t EXCEPT !.isInternalUpdate = FALSE]            \* finally

\* An on() that subscribes to every adapter of the chain.
on_AllAdapters(s) ==
    IF s.on THEN s
    ELSE [s EXCEPT !.subs = [i \in DOMAIN s.subs |-> s.subs[i] + 1],
                   !.unsubscribeFns = @ \o [i \in DOMAIN s.subs |-> i],
                   !.on = TRUE]

\* An on() without the "already started" guard.
on_NoGuard(s) ==
    [s EXCEPT !.subs[1] = @ + 1,
              !.unsubscribeFns = Append(@, 1),
              !.on = TRUE]

\* adapters[0] of an empty chain is undefined: reading its subscribe throws.
on(s) ==
    IF s.on THEN s
    ELSE IF Len(s.adapters) = 0 THEN [s EXCEPT !.threw = TRUE]
    ELSE [s EXCEPT !.subs[1] = @ + 1,
                   !.unsubscribeFns = Append(@, 1),
                   !.on = TRUE]

\* An off() that clears the flag and keeps the subscription.
off_FlagOnly(s) == [s EXCEPT !.on = FALSE]

off(s) ==
    [s EXCEPT !.subs = [i \in DOMAIN s.subs |->
                          s.subs[i] - Cardinality({j \in DOMAIN s.unsubscribeFns :
                                                     s.unsubscribeFns[j] = i})],
              !.unsubscribeFns = <<>>,
              !.on = FALSE]

toggle(s) == IF s.on THEN off(s) ELSE on(s)

\* A callback that reacts to every event, whatever its key.
subscribeCallback_AnyKey(s, changedKey, f) == sync(s, f)

\* The callback on() hands to adapters[0].subscribe.
subscribeCallback(s, changedKey, f) ==
    IF changedKey = Null \/ changedKey = KEY THEN sync(s, f) ELSE s

\* Adapter i emits a change event: each callback subscribed on it runs once.
RECURSIVE deliver(_, _, _, _)
deliver(s, times, changedKey, f) ==
    IF times = 0 THEN s
    ELSE deliver(subscribeCallback(s, changedKey, f), times - 1, changedKey, f)

emit(s, i, changedKey, f) == deliver(s, s.subs[i], changedKey, f)

\* The store as constructed, before options.listen is acted on.
newStore(chain, opts, value, threw) ==
    [adapters         |-> chain,
     defaultValue     |-> opts.defaultValue,
     internalStore    |-> value,
     isInternalUpdate |-> FALSE,
     on               |-> FALSE,
     subs             |-> [i \in DOMAIN chain |-> 0],
     unsubscribeFns   |-> <<>>,
     calls            |-> <<>>,
     threw            |-> threw]

\* A construction that prefers defaultValue to what the chain holds.
createStorageStore_DefaultFirst(chain, opts, f) ==
    LET currentValue == readFromAdapters(chain, f.get)
        s0 == newStore(chain, opts,
                       IF opts.defaultValue # Null THEN opts.defaultValue
                                                   ELSE currentValue.value, FALSE)
    IN  IF opts.listen THEN on(s0) ELSE s0

\* A construction that writes defaultValue to an empty chain.
createStorageStore_PersistDefault(chain, opts, f) ==
    LET currentValue == readFromAdapters(chain, f.get)
        s0 == newStore(chain, opts,
                       IF currentValue.value # Null THEN currentValue.value
                                                    ELSE opts.defaultValue, FALSE)
        s1 == IF currentValue.value = Null /\ opts.defaultValue # Null
              THEN writeToAdapters(s0, opts.defaultValue, f.set) ELSE s0
    IN  IF opts.listen THEN on(s1) ELSE s1

createStorageStore(chain, opts, f) ==
    LET currentValue == readFromAdapters(chain, f.get)
    IN  IF currentValue.threw THEN newStore(chain, opts, Null, TRUE)
        ELSE LET s0 == newStore(chain, opts,
                                IF currentValue.value # Null THEN currentValue.value
                                                             ELSE opts.defaultValue,
                                FALSE)
             IN  IF opts.listen THEN on(s0) ELSE s0

----------------------------------------------------------------------------
(* State machine.                                                          *)

\* The store's state at the start of an operation.
Cur == [adapters         |-> adapters,
        defaultValue     |-> defaultValue,
        internalStore    |-> internalStore,
        isInternalUpdate |-> isInternalUpdate,
        on               |-> listenerOn,
        subs             |-> subs,
        unsubscribeFns   |-> unsubscribeFns,
        calls            |-> <<>>,
        threw            |-> FALSE]

\* A construction that threw returned no store: nothing can be called on it.
Usable == ~(last.op = "construct" /\ last.threw)

PhaseAfter(s) ==
    IF listenerOn /\ ~s.on THEN "stopped"
    ELSE IF ~listenerOn /\ s.on /\ phase = "stopped" THEN "restarted"
    ELSE phase

Commit(s, op, arg, src, f) ==
    /\ Usable
    /\ adapters' = s.adapters
    /\ internalStore' = s.internalStore
    /\ isInternalUpdate' = s.isInternalUpdate
    /\ listenerOn' = s.on
    /\ subs' = s.subs
    /\ unsubscribeFns' = s.unsubscribeFns
    /\ last' = [op |-> op, arg |-> arg, src |-> src, f |-> f,
                threw |-> s.threw, calls |-> s.calls]
    /\ defaultValue' = defaultValue
    /\ faultFree' = (faultFree /\ f = NoFaults)
    /\ phase' = PhaseAfter(s)
    /\ UNCHANGED <<notifying, valuesVars, utilVars>>

Chains == UNION {[1..n -> ValueOrNull] : n \in 1..MaxChain}

\* What a caller not held to NonEmptyAdapterArray can pass: normalizeAdapters
\* returns any array as it is, the empty one included.
ChainsUntyped == Chains \cup {<<>>}

InitOver(chains) ==
    \E chain \in chains, listen \in BOOLEAN, dv \in ValueOrNull :
      \E f \in GetFaults(Len(chain)) :
        LET opts == [listen |-> listen, defaultValue |-> dv]
            s == createStorageStore(chain, opts, f)
        IN  /\ defaultValue = opts.defaultValue
            /\ adapters = s.adapters
            /\ internalStore = s.internalStore
            /\ isInternalUpdate = s.isInternalUpdate
            /\ listenerOn = s.on
            /\ subs = s.subs
            /\ unsubscribeFns = s.unsubscribeFns
            /\ pristine = (\A i \in DOMAIN chain : chain[i] = Null)
            /\ faultFree = (f = NoFaults)
            /\ phase = "initial"
            /\ last = [op |-> "construct", arg |-> Null, src |-> 0, f |-> f,
                       threw |-> s.threw, calls |-> s.calls]
            /\ notifying = FALSE
            /\ ValuesIdle
            /\ UtilIdle

Init == InitOver(Chains)

InitUntyped == InitOver(ChainsUntyped)

Get ==
    /\ Commit(Cur, "get", get(Cur), 0, NoFaults)
    /\ UNCHANGED pristine

Set ==
    \E value \in Values, f \in SetFaults(Len(adapters)) :
        /\ Commit(set(Cur, value, f), "set", value, 0, f)
        /\ pristine' = FALSE

Remove ==
    \E f \in RemoveFaults(Len(adapters)) :
        /\ Commit(remove(Cur, f), "remove", Null, 0, f)
        /\ UNCHANGED pristine

Sync ==
    \E f \in GetFaults(Len(adapters)) :
        /\ Commit(sync(Cur, f), "sync", Null, 0, f)
        /\ UNCHANGED pristine

On ==
    /\ Commit(on(Cur), "on", Null, 0, NoFaults)
    /\ UNCHANGED pristine

Off ==
    /\ Commit(off(Cur), "off", Null, 0, NoFaults)
    /\ UNCHANGED pristine

Toggle ==
    /\ Commit(toggle(Cur), "toggle", Null, 0, NoFaults)
    /\ UNCHANGED pristine

\* Adapter i emits a change event for changedKey (another tab changed the
\* backend, or the event is spurious).
\* With no callback subscribed on adapter i the event reaches no code of
\* the store, so no adapter is called and none can throw.
StorageEvent ==
    \E i \in DOMAIN adapters, changedKey \in ChangedKeys :
      \E f \in (IF subs[i] = 0 THEN {NoFaults} ELSE GetFaults(Len(adapters))) :
        /\ Commit(emit(Cur, i, changedKey, f), "event", changedKey, i, f)
        /\ UNCHANGED pristine

\* Something other than this store changes what adapter i holds for KEY.
ExternalWrite ==
    \E i \in DOMAIN adapters, value \in ValueOrNull :
        /\ value # adapters[i]
        /\ Commit([Cur EXCEPT !.adapters[i] = value], "external", value, i, NoFaults)
        /\ pristine' = FALSE

Next ==
    \/ Get
    \/ Set
    \/ Remove
    \/ Sync
    \/ On
    \/ Off
    \/ Toggle
    \/ StorageEvent
    \/ ExternalWrite

Spec == Init /\ [][Next]_vars

\* The key store as JavaScript callers can construct it.
SpecUntyped == InitUntyped /\ [][Next]_vars

TypeOK ==
    /\ adapters \in Chains
    /\ internalStore \in ValueOrNull
    /\ listenerOn \in BOOLEAN
    /\ isInternalUpdate \in BOOLEAN
    /\ pristine \in BOOLEAN
    /\ faultFree \in BOOLEAN

----------------------------------------------------------------------------
(* Vocabulary of the properties.                                           *)

Chain == DOMAIN adapters

\* During the last operation adapter i's get(KEY) returned a non-null value.
Held(i) == i \notin last.f.get /\ adapters[i] # Null

\* The value of the lowest-index adapter whose get returned non-null.
FirstHeld ==
    IF \E i \in Chain : Held(i)
    THEN adapters[CHOOSE i \in Chain : Held(i) /\ \A j \in 1..(i - 1) : ~Held(j)]
    ELSE Null

\* The chain's contents with every throwing adapter read as null.
AsIfNull == [i \in Chain |-> IF i \in last.f.get THEN Null ELSE adapters[i]]

FirstNonNull(chain) ==
    IF \E i \in DOMAIN chain : chain[i] # Null
    THEN chain[CHOOSE i \in DOMAIN chain :
                 chain[i] # Null /\ \A j \in 1..(i - 1) : chain[j] = Null]
    ELSE Null

SetCalls == {j \in DOMAIN last.calls : last.calls[j].m = "set"}
RemoveCalls == {j \in DOMAIN last.calls : last.calls[j].m = "remove"}

----------------------------------------------------------------------------
(* Key store: chain resolution.                                            *)

\* C1: the chain read used by construction and by sync() yields the value of
\* the lowest-index adapter whose get returns non-null, and null only when
\* no adapter returns one.  After sync() the container is that value; after
\* construction it is that value, or defaultValue when the read was null.
C1_ChainReadOrder ==
    /\ last.op = "sync" => internalStore = FirstHeld
    /\ last.op = "construct" =>
         internalStore = (IF FirstHeld # Null THEN FirstHeld ELSE defaultValue)
    /\ last.op = "sync" =>
         (internalStore = Null <=> \A i \in Chain : ~Held(i))

\* C1 witness: chain [A, B], both hold different values, sync() gave A's.
C1_Witness ==
    /\ last.op = "sync"
    /\ last.f.get = {}
    /\ adapters = <<"a", "b">>
    /\ internalStore = "a"

\* C2: a throwing get is read exactly like a get that returned null:
\* construction, sync(), a delivered event and set() never throw because of
\* it, the read goes on with the next adapter, and when every get throws
\* the result is null.
C2_ReadResilience ==
    /\ last.op \in {"construct", "sync", "event"} => ~last.threw
    /\ last.op = "set" /\ last.threw =>
         \E j \in SetCalls : last.calls[j].a \in last.f.set
    /\ last.op = "sync" => internalStore = FirstNonNull(AsIfNull)
    /\ last.op = "construct" =>
         internalStore = (IF FirstNonNull(AsIfNull) # Null THEN FirstNonNull(AsIfNull)
                                                           ELSE defaultValue)
    /\ last.op = "sync" /\ last.f.get = Chain => internalStore = Null

\* C2 witness: A's get throws (A holds "a"), B holds "b", sync() gave "b".
C2_Witness ==
    /\ last.op = "sync"
    /\ last.f.get = {1}
    /\ adapters = <<"a", "b">>
    /\ internalStore = "b"

----------------------------------------------------------------------------
(* Key store: set.                                                         *)

\* C3: after set(v) over non-throwing adapters every adapter of the chain
\* reports v for the key.
C3_WriteBroadcast ==
    last.op = "set" /\ faultFree =>
        \A i \in Chain : adapters[i] = last.arg

\* C4: once set(v) has returned, get() and $value.get() both return v.
C4_SetVisible ==
    last.op = "set" /\ ~last.threw =>
        get(Cur) = last.arg /\ dollarValue(Cur) = last.arg

\* C4 witness: a set(v) that returned after writing both adapters.
C4_Witness ==
    /\ last.op = "set"
    /\ ~last.threw
    /\ Len(last.calls) = 2
    /\ internalStore = last.arg

----------------------------------------------------------------------------
(* Key store: construction and defaultValue.                               *)

\* C5: right after construction get() is the chain read result when that is
\* non-null (defaultValue ignored), and defaultValue when it is null.
C5_InitialValue ==
    last.op = "construct" =>
        /\ FirstHeld # Null => get(Cur) = FirstHeld
        /\ FirstHeld = Null => get(Cur) = defaultValue

\* C5 witness: the chain holds "b", defaultValue is "a", the store starts at "b".
C5_Witness ==
    /\ last.op = "construct"
    /\ defaultValue = "a"
    /\ FirstHeld = "b"
    /\ internalStore = "b"

\* C6: a store built with a non-null defaultValue over an empty chain never
\* persists it: as long as there has been no set() call (and no out-of-band
\* write), no operation invokes an adapter's set and every adapter holds
\* null for the key.
C6_DefaultNotPersisted ==
    pristine /\ defaultValue # Null =>
        /\ \A i \in Chain : adapters[i] = Null
        /\ SetCalls = {}

\* C6 witness: such a store still held defaultValue, the listener is on and
\* a bulk event from the primary adapter has just been delivered.
C6_Witness ==
    /\ pristine
    /\ defaultValue = "a"
    /\ last.op = "event"
    /\ last.src = 1
    /\ listenerOn
    /\ Len(adapters) = 2

----------------------------------------------------------------------------
(* Key store: remove and sync.                                             *)

\* C7: after remove() returns, get() is null and every adapter holds null
\* for the key, whatever defaultValue and the listener state.
C7_RemoveResets ==
    last.op = "remove" /\ ~last.threw =>
        /\ get(Cur) = Null
        /\ \A i \in Chain : adapters[i] = Null

\* C7 witness: remove() returned on a two-adapter store with a non-null
\* defaultValue and the listener on.
C7_Witness ==
    /\ last.op = "remove"
    /\ ~last.threw
    /\ Cardinality(RemoveCalls) = 2
    /\ defaultValue = "a"
    /\ listenerOn
    /\ internalStore = Null

\* C8: after sync() get() is the current chain read result, null included:
\* defaultValue is never re-applied.
C8_SyncReflectsBackend ==
    last.op = "sync" =>
        /\ get(Cur) = FirstHeld
        /\ (\A i \in Chain : ~Held(i)) => get(Cur) = Null

\* C8 witness: a store with defaultValue "a" whose backend was written and
\* then emptied reads null after sync().
C8_Witness ==
    /\ last.op = "sync"
    /\ defaultValue = "a"
    /\ ~pristine
    /\ \A i \in Chain : adapters[i] = Null
    /\ internalStore = Null

\* C9: sync(), remove() and a delivered change event never invoke set on an
\* adapter; sync() and an event leave every adapter's contents as they
\* were, and remove() makes remove calls only.
C9_NoEcho ==
    [][ /\ last'.op \in {"sync", "event"} =>
             adapters' = adapters /\ last'.calls = <<>>
        /\ last'.op = "remove" =>
             \A j \in DOMAIN last'.calls : last'.calls[j].m = "remove" ]_vars

\* C9 witness: sync() committed B's value "b" while A holds nothing.
C9_Witness ==
    /\ last.op = "sync"
    /\ adapters = <<Null, "b">>
    /\ last.f.get = {}
    /\ internalStore = "b"

\* C10: with the listener on, an event from an adapter other than the
\* primary never changes the container; an event for the store's key from
\* the primary makes the container the chain read result.
C10_PrimaryOnly ==
    [][ last'.op = "event" /\ listenerOn =>
          /\ last'.src # 1 => internalStore' = internalStore
          /\ last'.src = 1 /\ last'.arg = KEY =>
               internalStore' = FirstHeld' ]_vars

\* C10 witness: B holds "b", B emitted an event for the key while the
\* listener is on, and the container is still null.
C10_Witness ==
    /\ last.op = "event"
    /\ last.src = 2
    /\ last.arg = KEY
    /\ listenerOn
    /\ adapters = <<Null, "b">>
    /\ internalStore = Null

----------------------------------------------------------------------------
(* Key store: listener.                                                    *)

\* C11: while listening, an event from the primary adapter for the store's
\* key or the bulk event (null) runs sync(): the container becomes the chain
\* read result and no adapter is written.  An event for any other key
\* leaves the container, the suppression flag and every adapter as they were.
C11_EventKeyFilter ==
    [][ last'.op = "event" /\ last'.src = 1 /\ listenerOn =>
          /\ last'.arg \in {KEY, Null} =>
               internalStore' = FirstHeld' /\ adapters' = adapters
          /\ last'.arg \notin {KEY, Null} =>
               /\ internalStore' = internalStore
               /\ isInternalUpdate' = isInternalUpdate
               /\ adapters' = adapters ]_vars

\* C11 witness: the primary holds "b", the container holds "a", and an event
\* for another key has just been delivered to the listening store.
C11_Witness ==
    /\ last.op = "event"
    /\ last.src = 1
    /\ last.arg = "other"
    /\ listenerOn
    /\ adapters[1] = "b"
    /\ internalStore = "a"

\* C12: the store holds exactly one subscription on the primary adapter
\* when $on is true and none when it is false, and none on any other
\* adapter; on(), off() and toggle() never throw; on() when already on and
\* off() when already off change nothing.
C12_ListenerIdempotent ==
    /\ [](/\ subs[1] = (IF listenerOn THEN 1 ELSE 0)
          /\ \A i \in Chain \ {1} : subs[i] = 0
          /\ Len(unsubscribeFns) = subs[1]
          /\ last.op \in {"on", "off", "toggle"} => ~last.threw)
    /\ [][ \/ last'.op = "on" /\ listenerOn
           \/ last'.op = "off" /\ ~listenerOn
           => UNCHANGED <<adapters, internalStore, listenerOn, subs,
                          unsubscribeFns, isInternalUpdate>> ]_vars

\* C12 witness: off() was called on a store that was not listening (no
\* subscription has ever been ended).
C12_Witness ==
    /\ last.op = "off"
    /\ phase = "initial"
    /\ ~listenerOn
    /\ subs[1] = 0

\* C13: once off() has ended the subscription no event changes the container
\* (or an adapter) until on() is called again; after that on(), an event
\* for the store's key from the primary adapter again makes the container
\* the chain read result.
C13_StopAndRestart ==
    [][ last'.op = "event" =>
          /\ phase = "stopped" =>
               internalStore' = internalStore /\ adapters' = adapters
          /\ phase = "restarted" /\ last'.src = 1 /\ last'.arg = KEY =>
               internalStore' = FirstHeld' ]_vars

\* C13 witness: on(), off(), on() again, and an event for the key from the
\* primary adapter has brought the container to the primary's value.
C13_Witness ==
    /\ phase = "restarted"
    /\ last.op = "event"
    /\ last.src = 1
    /\ last.arg = KEY
    /\ last.f.get = {}
    /\ adapters[1] = "b"
    /\ internalStore = "b"

\* C14: constructing a key store over a zero-element adapter array fails at
\* construction; no store over an empty chain ever exists.
C14_EmptyChainRejected ==
    Len(adapters) = 0 => last.op = "construct" /\ last.threw


\* ======================================================================
\* The values store: createStorageValuesStore(adapter, options)
\* ======================================================================

\* Keys a caller stores under, and names that every plain object inherits
\* from Object.prototype (a caller may look any string up).
VKeys == {"k1", "k2"}
ProtoKeys == {"constructor"}
LookupKeys == VKeys \cup ProtoKeys

\* Record<string, string>: the plain objects over the storable keys.
Objects == UNION {[K -> Values] : K \in SUBSET VKeys}

\* What a property read gives when there is no such property, and what it
\* gives when the name is found on Object.prototype instead of the object.
Undefined == "undefined"
Inherited == "inherited"

\* obj[key] as JavaScript evaluates it on a plain object: the own property,
\* else the member inherited from Object.prototype, else undefined.
propertyRead(obj, key) ==
    IF key \in DOMAIN obj THEN obj[key]
    ELSE IF key \in ProtoKeys THEN Inherited
    ELSE Undefined

\* x ?? null
orNull(x) == IF x = Undefined THEN Null ELSE x

\* { ...a, ...b }
spread(a, b) ==
    [k \in (DOMAIN a) \cup (DOMAIN b) |-> IF k \in DOMAIN b THEN b[k] ELSE a[k]]

\* a shallow copy of obj after `delete copy[k]` for every k of keys
deleteKeys(obj, keys) == [k \in (DOMAIN obj) \ keys |-> obj[k]]

shallowEqual_CommonKeys(a, b) ==
    LET keysA == DOMAIN a
        keysB == DOMAIN b
    IN  IF Cardinality(keysA) # Cardinality(keysB) THEN FALSE
        ELSE \A key \in keysA \cap keysB : a[key] = b[key]

shallowEqual(a, b) ==
    LET keysA == DOMAIN a
        keysB == DOMAIN b
    IN  IF Cardinality(keysA) # Cardinality(keysB) THEN FALSE
        ELSE \A key \in keysA : propertyRead(a, key) = propertyRead(b, key)

\* The adapter, a plain map (createMemoryAdapter); v is the state of one
\* store and its adapter during a call: storage, snapshot, on, unsubscribe,
\* subs, calls (the adapter's mutators invoked) and commits (the number of
\* times $internalStore took a new value and notified its observers).
adapterGetAll(v) == v.storage

adapterGetKey(v, key) == IF key \in DOMAIN v.storage THEN v.storage[key] ELSE Null

\* A setAll that writes the given entries and keeps every other key.
adapterSetAll_Merge(v, values) ==
    [v EXCEPT !.storage = spread(@, values), !.calls = Append(@, "setAll")]

adapterSetAll(v, values) ==
    [v EXCEPT !.storage = values, !.calls = Append(@, "setAll")]

\* The observer registered with $internalStore.subscribe.
mirror_Always(v, values) == adapterSetAll(v, values)

\* The adapter reports a change: every callback subscribed by on() runs sync().
RECURSIVE valuesDeliver(_, _)

\* adapter.setAll(values) as the mirror calls it: a notifying adapter calls
\* its subscribers before it returns.
setAllAndNotify(v, values) ==
    LET written == adapterSetAll(v, values)
    IN  IF v.notifying THEN valuesDeliver(written, written.subs) ELSE written

mirror(v, values) ==
    LET storageValues == adapterGetAll(v)
    IN  IF shallowEqual(values, storageValues) THEN v
        ELSE setAllAndNotify(v, values)

updateValue_NoGuard(v, newValue) ==
    mirror([v EXCEPT !.snapshot = newValue, !.commits = @ + 1], newValue)

updateValue(v, newValue) ==
    IF shallowEqual(newValue, v.snapshot) THEN v
    ELSE mirror([v EXCEPT !.snapshot = newValue, !.commits = @ + 1], newValue)

valuesGetAll(v) == v.snapshot

valuesGet(v, key) == orNull(propertyRead(v.snapshot, key))

valuesSet(v, key, value) == updateValue(v, spread(v.snapshot, key :> value))

valuesUpdate_Replace(v, values) == updateValue(v, values)

valuesUpdate(v, values) == updateValue(v, spread(v.snapshot, values))

\* update(fn): result is what fn returns for the current snapshot.
valuesUpdateFn(v, result) == updateValue(v, result)

valuesRemove_First(v, keysToDelete) ==
    IF keysToDelete = {} THEN updateValue(v, v.snapshot)
    ELSE updateValue(v, deleteKeys(v.snapshot, {CHOOSE k \in keysToDelete : TRUE}))

valuesRemove(v, keysToDelete) == updateValue(v, deleteKeys(v.snapshot, keysToDelete))

valuesClear(v) == updateValue(v, <<>>)

valuesSync_Stale(v) == v

valuesSync(v) == updateValue(v, adapterGetAll(v))

valuesOn_NoGuard(v) ==
    [v EXCEPT !.subs = @ + 1, !.unsubscribe = TRUE, !.on = TRUE]

valuesOn(v) ==
    IF v.on THEN v
    ELSE [v EXCEPT !.subs = @ + 1, !.unsubscribe = TRUE, !.on = TRUE]

valuesOff(v) ==
    IF v.unsubscribe
    THEN [v EXCEPT !.subs = @ - 1, !.unsubscribe = FALSE, !.on = FALSE]
    ELSE [v EXCEPT !.on = FALSE]

valuesToggle(v) == IF v.on THEN valuesOff(v) ELSE valuesOn(v)

valuesDeliver(v, times) ==
    IF times = 0 THEN v ELSE valuesDeliver(valuesSync(v), times - 1)

valuesEmit(v) == valuesDeliver(v, v.subs)

createStorageValuesStore(initial, listen) ==
    LET v0 == [storage |-> initial, snapshot |-> initial, on |-> FALSE,
               unsubscribe |-> FALSE, subs |-> 0, calls |-> <<>>, commits |-> 0,
               notifying |-> valuesNotifying]
        v1 == mirror(v0, v0.snapshot)
    IN  IF listen THEN valuesOn(v1) ELSE v1


\* ---------------------------------------------------------------------
\* The values store as a state machine
\* ---------------------------------------------------------------------

ValuesCur ==
    [storage |-> storage, snapshot |-> snapshot, on |-> dollarOn,
     unsubscribe |-> unsubscribe, subs |-> valuesSubs,
     calls |-> <<>>, commits |-> 0, notifying |-> valuesNotifying]

\* op: the call; key, value, values, keys: its arguments (Null, <<>>, {}
\* when the call has none); ret: what get(key) returned.
ValuesPhaseAfter(v) ==
    IF dollarOn /\ ~v.on THEN "stopped"
    ELSE IF ~dollarOn /\ v.on /\ valuesPhase = "stopped" THEN "restarted"
    ELSE valuesPhase

ValuesCommit(v, op, key, value, values, keys, ret) ==
    /\ storage' = v.storage
    /\ snapshot' = v.snapshot
    /\ dollarOn' = v.on
    /\ unsubscribe' = v.unsubscribe
    /\ valuesSubs' = v.subs
    /\ valuesPhase' = ValuesPhaseAfter(v)
    /\ vlast' = [op |-> op, key |-> key, value |-> value, values |-> values,
                 keys |-> keys, ret |-> ret,
                 calls |-> v.calls, commits |-> v.commits]
    /\ UNCHANGED <<valuesNotifying, keyVars, utilVars>>

ValuesInitOver(adapterNotifies) ==
    /\ valuesNotifying = adapterNotifies
    /\ \E initial \in Objects, listen \in BOOLEAN :
         LET v == createStorageValuesStore(initial, listen)
         IN  /\ storage = v.storage
             /\ snapshot = v.snapshot
             /\ dollarOn = v.on
             /\ unsubscribe = v.unsubscribe
             /\ valuesSubs = v.subs
             /\ valuesPhase = "initial"
             /\ vlast = [op |-> "construct", key |-> Null, value |-> Null,
                         values |-> <<>>, keys |-> {}, ret |-> Null,
                         calls |-> v.calls, commits |-> v.commits]
    /\ KeyIdle
    /\ UtilIdle

\* Over an adapter that never calls its subscribers by itself.
ValuesInit == ValuesInitOver(FALSE)

ValuesNotifyingInit == ValuesInitOver(TRUE)

ValuesGetAll ==
    ValuesCommit(ValuesCur, "getAll", Null, Null, valuesGetAll(ValuesCur), {}, Null)

ValuesGet ==
    \E key \in LookupKeys :
      ValuesCommit(ValuesCur, "get", key, Null, <<>>, {}, valuesGet(ValuesCur, key))

ValuesSet ==
    \E key \in VKeys, value \in Values :
      ValuesCommit(valuesSet(ValuesCur, key, value), "set", key, value, <<>>, {}, Null)

ValuesUpdate ==
    \E values \in Objects :
      ValuesCommit(valuesUpdate(ValuesCur, values), "update", Null, Null, values, {}, Null)

ValuesUpdateFn ==
    \E result \in Objects :
      ValuesCommit(valuesUpdateFn(ValuesCur, result), "updateFn", Null, Null, result, {}, Null)

ValuesRemove ==
    \E keysToDelete \in SUBSET VKeys :
      ValuesCommit(valuesRemove(ValuesCur, keysToDelete), "remove", Null, Null, <<>>,
                   keysToDelete, Null)

ValuesClear ==
    ValuesCommit(valuesClear(ValuesCur), "clear", Null, Null, <<>>, {}, Null)

ValuesSync ==
    ValuesCommit(valuesSync(ValuesCur), "sync", Null, Null, <<>>, {}, Null)

ValuesListenerOn ==
    ValuesCommit(valuesOn(ValuesCur), "on", Null, Null, <<>>, {}, Null)

ValuesListenerOff ==
    ValuesCommit(valuesOff(ValuesCur), "off", Null, Null, <<>>, {}, Null)

ValuesListenerToggle ==
    ValuesCommit(valuesToggle(ValuesCur), "toggle", Null, Null, <<>>, {}, Null)

\* The adapter reports a change of changedKey (Null: a bulk change).
ValuesStorageEvent ==
    \E changedKey \in VKeys \cup {Null} :
      ValuesCommit(valuesEmit(ValuesCur), "event", changedKey, Null, <<>>, {}, Null)

\* Another writer on the same adapter (a second store, another tab, direct
\* use of the adapter) sets or removes one key.
ValuesExternalWrite ==
    \E key \in VKeys, value \in ValueOrNull :
      LET written == IF value = Null THEN deleteKeys(storage, {key})
                     ELSE spread(storage, key :> value)
      IN  ValuesCommit([ValuesCur EXCEPT !.storage = written], "external",
                       key, value, <<>>, {}, Null)

ValuesNext ==
    \/ ValuesGetAll
    \/ ValuesGet
    \/ ValuesSet
    \/ ValuesUpdate
    \/ ValuesUpdateFn
    \/ ValuesRemove
    \/ ValuesClear
    \/ ValuesSync
    \/ ValuesListenerOn
    \/ ValuesListenerOff
    \/ ValuesListenerToggle
    \/ ValuesStorageEvent
    \/ ValuesExternalWrite

SpecValues == ValuesInit /\ [][ValuesNext]_vars

\* The values store over an adapter that notifies after its own setAll.
SpecValuesNotifying == ValuesNotifyingInit /\ [][ValuesNext]_vars

ValuesTypeOK ==
    /\ storage \in Objects
    /\ snapshot \in Objects
    /\ dollarOn \in BOOLEAN
    /\ unsubscribe \in BOOLEAN
    /\ valuesSubs \in 0..1
    /\ valuesPhase \in {"initial", "stopped", "restarted"}
    /\ vlast.calls \in {<<>>, <<"setAll">>}
    /\ vlast.commits \in 0..1


\* ---------------------------------------------------------------------
\* Claims about the values store
\* ---------------------------------------------------------------------

\* C15 (as stated): get(key) returns null for every key that is not present
\* in the snapshot, and the stored string for every key that is.
\* Violated: a key absent from the snapshot whose name is a member of
\* Object.prototype reads the inherited member, which `?? null` lets through.
C15_GetAbsentIsNull ==
    vlast.op = "get" =>
      vlast.ret = (IF vlast.key \in DOMAIN snapshot THEN snapshot[vlast.key]
                   ELSE Null)

\* C16 (as stated): after set(k, v) returns, store.get(k) and adapter.get(k)
\* both equal v.
\* Violated: when the snapshot already holds v under k, set is gated off by
\* the equality guard and a backend changed by another writer is left as is.
C16_SetReachesBackend ==
    vlast.op = "set" =>
      /\ valuesGet(ValuesCur, vlast.key) = vlast.value
      /\ adapterGetKey(ValuesCur, vlast.key) = vlast.value

\* C17 (as stated): set(k, v) changes only the entry for k; every other key
\* keeps its value in the snapshot and in the backend, also when another
\* writer has changed the backend since the store's last sync.
\* Violated: the write goes out as setAll(snapshot), which replaces the whole
\* backend and so drops or reverts what the other writer stored.
C17_SetSingleEntry ==
    [][ vlast'.op = "set" =>
          \A k \in VKeys \ {vlast'.key} :
            /\ propertyRead(snapshot', k) = propertyRead(snapshot, k)
            /\ propertyRead(storage', k) = propertyRead(storage, k) ]_vars

\* C18: update(partial) leaves the snapshot equal to the previous snapshot
\* overridden key by key with partial; update(fn) leaves it equal to fn's
\* result exactly, so keys the result omits are gone.
C18_Update ==
    [][ /\ vlast'.op = "update" =>
             /\ DOMAIN snapshot' = (DOMAIN snapshot) \cup (DOMAIN vlast'.values)
             /\ \A k \in DOMAIN snapshot' :
                  snapshot'[k] = (IF k \in DOMAIN vlast'.values
                                  THEN vlast'.values[k] ELSE snapshot[k])
        /\ vlast'.op = "updateFn" => snapshot' = vlast'.values ]_vars

C18_Witness ==
    /\ vlast.op = "update"
    /\ vlast.values = ("k2" :> "b")
    /\ snapshot = [k1 |-> "a", k2 |-> "b"]
    /\ vlast.commits = 1

\* C19: remove(keys) leaves the snapshot equal to the previous snapshot with
\* exactly those keys deleted; keys that were not present change nothing.
C19_Remove ==
    [][ vlast'.op = "remove" =>
          /\ DOMAIN snapshot' = (DOMAIN snapshot) \ vlast'.keys
          /\ \A k \in DOMAIN snapshot' : snapshot'[k] = snapshot[k] ]_vars

C19_Witness ==
    /\ vlast.op = "remove"
    /\ vlast.keys = {"k1", "k2"}
    /\ vlast.commits = 1
    /\ snapshot = <<>>

\* C20 (as stated): after clear() returns, the snapshot is empty and
\* adapter.getAll() is empty.
\* Violated: with an empty snapshot clear() is gated off by the equality
\* guard, and entries another writer put in the backend stay there.
C20_ClearEmptiesStorage ==
    vlast.op = "clear" => snapshot = <<>> /\ adapterGetAll(ValuesCur) = <<>>


\* The snapshot a mutator computes from its arguments, the snapshot snap and
\* the backend content stor, before the equality guard sees it.
computedSnapshot(l, snap, stor) ==
    CASE l.op = "set"      -> spread(snap, l.key :> l.value)
      [] l.op = "update"   -> spread(snap, l.values)
      [] l.op = "updateFn" -> l.values
      [] l.op = "remove"   -> deleteKeys(snap, l.keys)
      [] l.op = "clear"    -> <<>>
      [] l.op = "sync"     -> stor

Mutators == {"set", "update", "updateFn", "remove", "clear", "sync"}

\* C21: whenever the snapshot that set, update (either form), remove, clear
\* or sync computes is structurally equal to the current snapshot, the
\* container takes no new value (it keeps its instance and notifies no
\* observer), adapter.setAll is not called and the backend is left as it is.
C21_NoOpSuppression ==
    [][ /\ vlast'.op \in Mutators
        /\ computedSnapshot(vlast', snapshot, storage) = snapshot
        => /\ vlast'.commits = 0
           /\ vlast'.calls = <<>>
           /\ snapshot' = snapshot
           /\ storage' = storage ]_vars

\* a set that repeats the held value while the backend holds another one
C21_Witness ==
    /\ vlast.op = "set"
    /\ vlast.key = "k1" /\ vlast.value = "a"
    /\ vlast.commits = 0
    /\ snapshot = [k1 |-> "a"]
    /\ storage = [k1 |-> "b", k2 |-> "a"]

\* C22: after sync() returns, and after a change event (for any key, or the
\* bulk null event) has been delivered while the listener is on, the
\* snapshot equals adapter.getAll().
C22_ReadBack ==
    \/ vlast.op = "sync"
    \/ vlast.op = "event" /\ dollarOn
    => /\ shallowEqual(snapshot, adapterGetAll(ValuesCur))
       /\ snapshot = storage

C22_Witness ==
    /\ vlast.op = "event" /\ vlast.key = Null
    /\ dollarOn
    /\ vlast.commits = 1
    /\ snapshot = [k1 |-> "b", k2 |-> "a"]

\* C23: sync(), called directly or from a change event, never invokes a
\* mutator of the adapter, and the backend content is the same before and
\* after it, keys the snapshot did not contain included.
C23_SyncDoesNotWriteBack ==
    [][ vlast'.op \in {"sync", "event"} =>
          /\ vlast'.calls = <<>>
          /\ storage' = storage ]_vars

C23_Witness ==
    /\ vlast.op = "sync"
    /\ vlast.commits = 1
    /\ storage = [k1 |-> "a", k2 |-> "b"]
    /\ snapshot = storage

\* C24: the store holds an unsubscribe handle, and one subscription on its
\* adapter, exactly when listener.$on is true; a repeated on() adds no second
\* subscription, a repeated off() changes nothing, and after on() has
\* followed off() events are delivered again.
C24_ValuesListenerIdempotent ==
    /\ [](/\ unsubscribe = dollarOn
          /\ valuesSubs = (IF dollarOn THEN 1 ELSE 0))
    /\ [][ /\ \/ vlast'.op = "on" /\ dollarOn
              \/ vlast'.op = "off" /\ ~dollarOn
              => UNCHANGED <<storage, snapshot, dollarOn, unsubscribe, valuesSubs>>
           /\ vlast'.op = "event" /\ valuesPhase = "restarted" /\ dollarOn
              => snapshot' = storage'
           /\ vlast'.op = "event" /\ ~dollarOn
              => snapshot' = snapshot ]_vars

C24_Witness ==
    /\ valuesPhase = "restarted"
    /\ vlast.op = "event"
    /\ dollarOn /\ unsubscribe /\ valuesSubs = 1
    /\ vlast.commits = 1
    /\ snapshot = [k2 |-> "b"]


\* ======================================================================
\* The equality guard: shallowEqual(a, b)
\* ======================================================================

\* The flat mappings it is applied to; a key may carry the name of a member
\* of Object.prototype.
EqObjects == UNION {[K -> Values] : K \in SUBSET LookupKeys}

EqInit ==
    /\ eqA \in EqObjects
    /\ eqB \in EqObjects
    /\ eqDone = FALSE
    /\ eqResult = FALSE
    /\ KeyIdle
    /\ ValuesIdle
    /\ EventIdle
    /\ MemIdle
    /\ WebIdle

EqCall ==
    /\ ~eqDone
    /\ eqDone' = TRUE
    /\ eqResult' = shallowEqual(eqA, eqB)
    /\ UNCHANGED <<eqA, eqB, keyVars, valuesVars, eventVars, memVars, webVars>>

EqNextArguments ==
    /\ eqDone
    /\ eqA' \in EqObjects
    /\ eqB' \in EqObjects
    /\ eqDone' = FALSE
    /\ eqResult' = FALSE
    /\ UNCHANGED <<keyVars, valuesVars, eventVars, memVars, webVars>>

EqNext == EqCall \/ EqNextArguments

SpecShallowEqual == EqInit /\ [][EqNext]_vars

\* C25: shallowEqual(a, b) is true exactly when a and b have the same key
\* set and every key maps to the same string in both; in particular it is
\* false for mappings of equal size over different keys.
C25_ShallowEqual ==
    eqDone =>
      (eqResult <=> /\ DOMAIN eqA = DOMAIN eqB
                    /\ \A k \in DOMAIN eqA : eqA[k] = eqB[k])

C25_Witness ==
    /\ eqDone
    /\ ~eqResult
    /\ eqA = [k1 |-> "a"]
    /\ eqB = [k2 |-> "a"]


\* ======================================================================
\* createWebStorageAdapter(storage): subscribe and handleStorageEvent
\* ======================================================================

Callbacks == {"cb1", "cb2"}

\* event.storageArea: the adapter's own Storage object or another one
Areas == {"own", "other"}

\* Set.prototype.add and Set.prototype.delete on an insertion-ordered Set
setAdd(seq, x) == IF \E i \in DOMAIN seq : seq[i] = x THEN seq ELSE Append(seq, x)

setDelete(seq, x) == SelectSeq(seq, LAMBDA y : y # x)

\* w: the adapter's closure during a call: listeners, attached, thunks,
\* hasWindow, invoked, the callback invocations made, in order, and again:
\* the call is one of a thunk that had been called before.
\* window.addEventListener throws (and is caught) where window is not defined.
webSubscribe(w, callback) ==
    LET added == [w EXCEPT !.listeners = setAdd(@, callback),
                           !.thunks = @ \cup {[callback |-> callback,
                                               called |-> FALSE]}]
    IN  IF Len(added.listeners) = 1 /\ w.hasWindow
        THEN [added EXCEPT !.attached = TRUE]
        ELSE added

\* the thunk that subscribe(callback) returned
webUnsubscribe(w, callback) ==
    LET deleted == [w EXCEPT !.listeners = setDelete(@, callback)]
    IN  IF Len(deleted.listeners) = 0 /\ w.hasWindow
        THEN [deleted EXCEPT !.attached = FALSE]
        ELSE deleted

\* Calling one of the thunks handed out.
callThunk(w, thunk) ==
    webUnsubscribe([w EXCEPT !.thunks = (@ \ {thunk})
                                          \cup {[thunk EXCEPT !.called = TRUE]},
                             !.again = thunk.called],
                   thunk.callback)

\* The loop over listeners from position i on; throwing: the callbacks that
\* throw when called.
RECURSIVE callFrom_NoCatch(_, _, _, _)
callFrom_NoCatch(w, i, key, throwing) ==
    IF i > Len(w.listeners) THEN w
    ELSE LET called == [w EXCEPT !.invoked = Append(@, <<w.listeners[i], key>>)]
         IN  IF w.listeners[i] \in throwing THEN called
             ELSE callFrom_NoCatch(called, i + 1, key, throwing)

RECURSIVE callFrom(_, _, _, _)
callFrom(w, i, key, throwing) ==
    IF i > Len(w.listeners) THEN w
    ELSE callFrom([w EXCEPT !.invoked = Append(@, <<w.listeners[i], key>>)],
                  i + 1, key, throwing)

handleStorageEvent_NoCatch(w, event, throwing) ==
    IF event.storageArea # "own" THEN w
    ELSE callFrom_NoCatch(w, 1, event.key, throwing)

handleStorageEvent(w, event, throwing) ==
    IF event.storageArea # "own" THEN w
    ELSE callFrom(w, 1, event.key, throwing)

\* window dispatches a storage event to the handlers registered on it
dispatchEvent(w, event, throwing) ==
    IF w.attached THEN handleStorageEvent(w, event, throwing) ELSE w

EventCur ==
    [hasWindow |-> hasWindow, listeners |-> listeners, attached |-> attached,
     thunks |-> thunks, invoked |-> <<>>, again |-> FALSE]

EventCommit(w, op, callback, event, throwing) ==
    /\ listeners' = w.listeners
    /\ attached' = w.attached
    /\ thunks' = w.thunks
    /\ hasWindow' = hasWindow
    /\ elast' = [op |-> op, callback |-> callback, event |-> event,
                 throwing |-> throwing, invoked |-> w.invoked, again |-> w.again]
    /\ UNCHANGED <<keyVars, valuesVars, eqVars, memVars, webVars>>

NoEvent == [key |-> Null, storageArea |-> Null]

EventInit ==
    /\ hasWindow \in BOOLEAN
    /\ listeners = <<>>
    /\ attached = FALSE
    /\ thunks = {}
    /\ elast = [op |-> "construct", callback |-> Null, event |-> NoEvent,
                throwing |-> {}, invoked |-> <<>>, again |-> FALSE]
    /\ KeyIdle
    /\ ValuesIdle
    /\ EqIdle
    /\ MemIdle
    /\ WebIdle

WebSubscribe ==
    \E callback \in Callbacks :
      EventCommit(webSubscribe(EventCur, callback), "subscribe", callback, NoEvent, {})

WebUnsubscribe ==
    \E thunk \in thunks :
      EventCommit(callThunk(EventCur, thunk), "unsubscribe", thunk.callback, NoEvent, {})

\* A storage event is dispatched on window (there is none without a window).
WebStorageEvent ==
    /\ hasWindow
    /\ \E key \in VKeys \cup {Null}, area \in Areas, throwing \in SUBSET Callbacks :
         LET event == [key |-> key, storageArea |-> area]
         IN  EventCommit(dispatchEvent(EventCur, event, throwing), "event", Null,
                         event, throwing)

EventNext == WebSubscribe \/ WebUnsubscribe \/ WebStorageEvent

SpecWebEvents == EventInit /\ [][EventNext]_vars

\* the number of times callback was invoked with key, according to invoked
RECURSIVE timesInvoked(_, _, _)
timesInvoked(invoked, callback, key) ==
    IF invoked = <<>> THEN 0
    ELSE (IF Head(invoked) = <<callback, key>> THEN 1 ELSE 0)
         + timesInvoked(Tail(invoked), callback, key)

Subscribed == {listeners[i] : i \in DOMAIN listeners}

\* C26: for a storage event of the adapter's own storage area every
\* subscribed callback is invoked exactly once, with the event's key, also
\* when other callbacks throw, and no other invocation is made; an event of
\* another storage area invokes no callback.
C26_SubscriberIsolation ==
    elast.op = "event" =>
      IF elast.event.storageArea = "own"
      THEN /\ \A cb \in Subscribed : timesInvoked(elast.invoked, cb, elast.event.key) = 1
           /\ Len(elast.invoked) = Len(listeners)
      ELSE elast.invoked = <<>>

\* the first subscriber throws and the second is still called
C26_Witness ==
    /\ elast.op = "event"
    /\ elast.event = [key |-> "k1", storageArea |-> "own"]
    /\ listeners = <<"cb1", "cb2">>
    /\ elast.throwing = {"cb1"}
    /\ elast.invoked = <<<<"cb1", "k1">>, <<"cb2", "k1">>>>


\* ======================================================================
\* createMemoryAdapter(initialData)
\* ======================================================================

\* The order in which the own keys of a plain object are enumerated.
KeyOrder == <<"k1", "k2", "constructor">>

\* Object.entries(obj)
objectEntries(obj) ==
    LET keys == SelectSeq(KeyOrder, LAMBDA k : k \in DOMAIN obj)
    IN  [i \in DOMAIN keys |-> <<keys[i], obj[keys[i]]>>]

\* Object.fromEntries(entries): a later entry overrides an earlier one
objectFromEntries(entries) ==
    [k \in {entries[i][1] : i \in DOMAIN entries} |->
       LET at == {i \in DOMAIN entries : entries[i][1] = k}
       IN  entries[CHOOSE i \in at : \A j \in at : j <= i][2]]

\* A Map<string, string> is the sequence of its entries in insertion order.
mapHas(entries, key) == \E i \in DOMAIN entries : entries[i][1] = key

mapGet(entries, key) ==
    IF mapHas(entries, key)
    THEN entries[CHOOSE i \in DOMAIN entries : entries[i][1] = key][2]
    ELSE Undefined

mapSet(entries, key, value) ==
    IF mapHas(entries, key)
    THEN [i \in DOMAIN entries |->
            IF entries[i][1] = key THEN <<key, value>> ELSE entries[i]]
    ELSE Append(entries, <<key, value>>)

mapDelete(entries, key) == SelectSeq(entries, LAMBDA e : e[1] # key)

\* m: one adapter instance during a call: storage (its Map), handed (the
\* callbacks that have been passed to its subscribe) and invoked (the
\* callbacks it has called).
memoryGet(m, key) == orNull(mapGet(m.storage, key))

memorySet_Notifying(m, key, value) ==
    [m EXCEPT !.storage = mapSet(@, key, value), !.invoked = m.handed]

memorySet(m, key, value) == [m EXCEPT !.storage = mapSet(@, key, value)]

memoryRemove(m, key) == [m EXCEPT !.storage = mapDelete(@, key)]

memoryGetAll(m) == objectFromEntries(m.storage)

RECURSIVE memorySetEach(_, _)
memorySetEach(m, entries) ==
    IF entries = <<>> THEN m
    ELSE memorySetEach([m EXCEPT !.storage = mapSet(@, Head(entries)[1], Head(entries)[2])],
                       Tail(entries))

memorySetAll_Merge(m, values) == memorySetEach(m, objectEntries(values))

memorySetAll(m, values) ==
    memorySetEach([m EXCEPT !.storage = <<>>], objectEntries(values))

memoryClear(m) == [m EXCEPT !.storage = <<>>]

\* subscribe ignores its argument and returns noop
memorySubscribe(m, callback) == m

createMemoryAdapter(given, initialData) ==
    IF given THEN objectEntries(initialData) ELSE <<>>


Instances == 1..2

\* the callback a listening store hands to subscribe: it runs the store's sync()
StoreCallback == "sync"

MemCur(i) ==
    [storage |-> memory[i],
     handed |-> IF i = 1 /\ memListening THEN <<StoreCallback>> ELSE <<>>,
     invoked |-> <<>>]

\* ref: what the operation makes of a plain finite map. A callback that the
\* adapter invokes is the store's, which re-reads the adapter into its
\* container.
MemCommit(i, m, op, key, value, values, ret, ref) ==
    /\ memory' = [memory EXCEPT ![i] = m.storage]
    /\ reference' = [reference EXCEPT ![i] = ref]
    /\ memListening' = memListening
    /\ memContainer' = IF m.invoked # <<>> THEN memoryGetAll(m) ELSE memContainer
    /\ mlast' = [op |-> op, inst |-> i, key |-> key, value |-> value,
                 values |-> values, ret |-> ret, invoked |-> m.invoked]
    /\ UNCHANGED <<keyVars, valuesVars, eqVars, eventVars, webVars>>

MemInit ==
    /\ \E given \in [Instances -> BOOLEAN], initialData \in [Instances -> Objects] :
         /\ memory = [i \in Instances |-> createMemoryAdapter(given[i], initialData[i])]
         /\ reference = [i \in Instances |-> IF given[i] THEN initialData[i] ELSE <<>>]
         /\ memContainer = objectFromEntries(createMemoryAdapter(given[1], initialData[1]))
    /\ memListening = FALSE
    /\ mlast = [op |-> "construct", inst |-> 0, key |-> Null, value |-> Null,
                values |-> <<>>, ret |-> Null, invoked |-> <<>>]
    /\ KeyIdle
    /\ ValuesIdle
    /\ EqIdle
    /\ EventIdle
    /\ WebIdle

MemGet ==
    \E i \in Instances, key \in LookupKeys :
      MemCommit(i, MemCur(i), "get", key, Null, <<>>, memoryGet(MemCur(i), key),
                reference[i])

MemGetAll ==
    \E i \in Instances :
      MemCommit(i, MemCur(i), "getAll", Null, Null, memoryGetAll(MemCur(i)), Null,
                reference[i])

MemSet ==
    \E i \in Instances, key \in VKeys, value \in Values :
      MemCommit(i, memorySet(MemCur(i), key, value), "set", key, value, <<>>, Null,
                spread(reference[i], key :> value))

MemRemove ==
    \E i \in Instances, key \in VKeys :
      MemCommit(i, memoryRemove(MemCur(i), key), "remove", key, Null, <<>>, Null,
                deleteKeys(reference[i], {key}))

MemSetAll ==
    \E i \in Instances, values \in Objects :
      MemCommit(i, memorySetAll(MemCur(i), values), "setAll", Null, Null, values, Null,
                values)

MemClear ==
    \E i \in Instances :
      MemCommit(i, memoryClear(MemCur(i)), "clear", Null, Null, <<>>, Null, <<>>)

\* The store on instance 1 starts listening: listener.on() hands its
\* callback to subscribe.
MemStoreOn ==
    /\ memory' = [memory EXCEPT ![1] = memorySubscribe(MemCur(1), StoreCallback).storage]
    /\ memListening' = TRUE
    /\ mlast' = [op |-> "subscribe", inst |-> 1, key |-> Null, value |-> Null,
                 values |-> <<>>, ret |-> Null,
                 invoked |-> memorySubscribe(MemCur(1), StoreCallback).invoked]
    /\ UNCHANGED <<reference, memContainer, keyVars, valuesVars, eqVars, eventVars,
                   webVars>>

\* The store on instance 1 is told to sync().
MemStoreSync ==
    /\ memContainer' = memoryGetAll(MemCur(1))
    /\ mlast' = [op |-> "sync", inst |-> 1, key |-> Null, value |-> Null,
                 values |-> <<>>, ret |-> Null, invoked |-> <<>>]
    /\ UNCHANGED <<memory, reference, memListening, keyVars, valuesVars, eqVars,
                   eventVars, webVars>>

MemNext ==
    \/ MemGet
    \/ MemGetAll
    \/ MemSet
    \/ MemRemove
    \/ MemSetAll
    \/ MemClear
    \/ MemStoreOn
    \/ MemStoreSync

SpecMemory == MemInit /\ [][MemNext]_vars

refGet(ref, key) == IF key \in DOMAIN ref THEN ref[key] ELSE Null

\* C27: after any sequence of set, remove, setAll and clear (on an instance
\* created with or without initial data) get(k) and getAll() return what the
\* reference finite map returns, and an operation on one instance leaves the
\* other instance as it was.
C27_MemoryIsPlainMap ==
    /\ [](/\ \A i \in Instances :
               /\ memoryGetAll(MemCur(i)) = reference[i]
               /\ \A k \in LookupKeys : memoryGet(MemCur(i), k) = refGet(reference[i], k)
          /\ mlast.op = "get" => mlast.ret = refGet(reference[mlast.inst], mlast.key)
          /\ mlast.op = "getAll" => mlast.values = reference[mlast.inst])
    /\ [][ \A i \in Instances : mlast'.inst # i => memory'[i] = memory[i] ]_vars

\* setAll has replaced a content that held another key
C27_Witness ==
    /\ mlast.op = "setAll" /\ mlast.inst = 1
    /\ mlast.values = [k2 |-> "b"]
    /\ memory[1] = <<<<"k2", "b">>>>
    /\ memory[2] = <<<<"k2", "a">>, <<"k1", "a">>>>

\* C28: no set, remove, setAll or clear on a memory adapter invokes a
\* callback given to subscribe, so the container of a store listening on it
\* is not changed by writes of others to the adapter, only by its own
\* operations and sync().
C28_MemoryNeverNotifies ==
    [][ mlast'.op \in {"set", "remove", "setAll", "clear"} =>
          /\ mlast'.invoked = <<>>
          /\ memContainer' = memContainer ]_vars

\* the store listens, another writer has written, the container is stale
C28_Witness ==
    /\ memListening
    /\ mlast.op = "set" /\ mlast.inst = 1
    /\ memory[1] = <<<<"k1", "b">>>>
    /\ memContainer = <<>>


\* ======================================================================
\* createWebStorageAdapter(storage): get, set, remove, getAll, setAll, clear
\* ======================================================================

\* Which calls on the Storage object throw during one adapter call: reading
\* storage.length, getItem / setItem / removeItem of the listed keys, clear.
NoWebFaults ==
    [length |-> FALSE, getItem |-> {}, setItem |-> {}, removeItem |-> {},
     clear |-> FALSE]

GetAllFaults ==
    {NoWebFaults, [NoWebFaults EXCEPT !.length = TRUE]}
      \cup {[NoWebFaults EXCEPT !.getItem = {k}] : k \in LookupKeys}

SetAllFaults ==
    {NoWebFaults, [NoWebFaults EXCEPT !.length = TRUE]}
      \cup {[NoWebFaults EXCEPT !.getItem = {k}] : k \in VKeys}
      \cup {[NoWebFaults EXCEPT !.setItem = {k}] : k \in VKeys}
      \cup {[NoWebFaults EXCEPT !.removeItem = {k}] : k \in LookupKeys}

\* storage.getItem(key) on a Storage that does not throw
storageGetItem(entries, key) == orNull(mapGet(entries, key))

\* `key in values` for a plain object values
inOperator(key, obj) == key \in DOMAIN obj \/ key \in ProtoKeys

\* s: the Storage object and the call's record: items, calls (the Storage
\* methods invoked, in order), threw (an exception is in flight), ret and
\* retAll (what get and getAll return).
storageCall(s, method, key) == [s EXCEPT !.calls = Append(@, <<method, key>>)]

\* The Storage methods: each either throws or acts.
storageSetItem(s, key, value, f) ==
    LET called == storageCall(s, "setItem", key)
    IN  IF key \in f.setItem THEN [called EXCEPT !.threw = TRUE]
        ELSE [called EXCEPT !.items = mapSet(@, key, value)]

storageRemoveItem(s, key, f) ==
    LET called == storageCall(s, "removeItem", key)
    IN  IF key \in f.removeItem THEN [called EXCEPT !.threw = TRUE]
        ELSE [called EXCEPT !.items = mapDelete(@, key)]

storageClear(s, f) ==
    LET called == storageCall(s, "clear", Null)
    IN  IF f.clear THEN [called EXCEPT !.threw = TRUE]
        ELSE [called EXCEPT !.items = <<>>]

\* getItem changes nothing: it throws or its value is storageGetItem
storageGetItemCall(s, key, f) ==
    LET called == storageCall(s, "getItem", key)
    IN  IF key \in f.getItem THEN [called EXCEPT !.threw = TRUE] ELSE called

\* catch (error) { warnDev(...) }
catch(s) == [s EXCEPT !.threw = FALSE]

webGet(s, key, f) ==
    LET read == storageGetItemCall(s, key, f)
    IN  IF read.threw THEN [catch(read) EXCEPT !.ret = Null]
        ELSE [read EXCEPT !.ret = storageGetItem(s.items, key)]

webSet(s, key, value, f) == catch(storageSetItem(s, key, value, f))

webRemove(s, key, f) == catch(storageRemoveItem(s, key, f))

\* the loop of getAll from index i on, result being what is gathered so far
RECURSIVE gatherFrom(_, _, _, _)
gatherFrom(s, i, f, result) ==
    IF i > Len(s.items) THEN [s EXCEPT !.retAll = result]
    ELSE LET key == s.items[i][1]
             read == storageGetItemCall(s, key, f)
         IN  IF read.threw THEN [read EXCEPT !.retAll = result]
             ELSE gatherFrom(read, i + 1, f, spread(result, key :> s.items[i][2]))

webGetAll(s, f) ==
    IF f.length THEN [s EXCEPT !.retAll = <<>>]
    ELSE catch(gatherFrom(s, 1, f, <<>>))

\* setAll, first part: removeItem for the listed keys; the first call that
\* throws leaves the loop
RECURSIVE removeEach(_, _, _)
removeEach(s, keysToRemove, f) ==
    IF keysToRemove = <<>> THEN s
    ELSE LET removed == storageRemoveItem(s, Head(keysToRemove), f)
         IN  IF removed.threw THEN removed
             ELSE removeEach(removed, Tail(keysToRemove), f)

removeOldKeys(s, values, f) ==
    IF f.length THEN s
    ELSE LET keys == [i \in DOMAIN s.items |-> s.items[i][1]]
             keysToRemove == SelectSeq(keys, LAMBDA k : ~inOperator(k, values))
         IN  catch(removeEach(s, keysToRemove, f))

\* setAll, second part: the body of the loop over Object.entries(values)
writeOne(s, key, value, f) ==
    LET read == storageGetItemCall(s, key, f)
    IN  IF read.threw THEN read
        ELSE IF storageGetItem(s.items, key) = value THEN read
        ELSE storageSetItem(read, key, value, f)

RECURSIVE writeEach_SingleTry(_, _, _)
writeEach_SingleTry(s, entries, f) ==
    IF entries = <<>> THEN s
    ELSE LET written == writeOne(s, Head(entries)[1], Head(entries)[2], f)
         IN  IF written.threw THEN catch(written)
             ELSE writeEach_SingleTry(written, Tail(entries), f)

RECURSIVE writeEach(_, _, _)
writeEach(s, entries, f) ==
    IF entries = <<>> THEN s
    ELSE writeEach(catch(writeOne(s, Head(entries)[1], Head(entries)[2], f)),
                   Tail(entries), f)

webSetAll_SingleTry(s, values, f) ==
    writeEach_SingleTry(removeOldKeys(s, values, f), objectEntries(values), f)

webSetAll(s, values, f) ==
    writeEach(removeOldKeys(s, values, f), objectEntries(values), f)

webClear(s, f) == catch(storageClear(s, f))

WebCur == [items |-> items, calls |-> <<>>, threw |-> FALSE, ret |-> Null,
           retAll |-> <<>>]

WebCommit(s, op, key, value, values, f) ==
    /\ items' = s.items
    /\ wlast' = [op |-> op, key |-> key, value |-> value, values |-> values,
                 f |-> f, ret |-> s.ret, retAll |-> s.retAll, calls |-> s.calls,
                 threw |-> s.threw]
    /\ UNCHANGED <<keyVars, valuesVars, eqVars, eventVars, memVars>>

WebInit ==
    /\ items = <<>>
    /\ wlast = [op |-> "construct", key |-> Null, value |-> Null, values |-> <<>>,
                f |-> NoWebFaults, ret |-> Null, retAll |-> <<>>, calls |-> <<>>,
                threw |-> FALSE]
    /\ KeyIdle
    /\ ValuesIdle
    /\ EqIdle
    /\ EventIdle
    /\ MemIdle

WebGet ==
    \E key \in LookupKeys, throws \in BOOLEAN :
      LET f == IF throws THEN [NoWebFaults EXCEPT !.getItem = {key}] ELSE NoWebFaults
      IN  WebCommit(webGet(WebCur, key, f), "get", key, Null, <<>>, f)

WebSet ==
    \E key \in LookupKeys, value \in Values, throws \in BOOLEAN :
      LET f == IF throws THEN [NoWebFaults EXCEPT !.setItem = {key}] ELSE NoWebFaults
      IN  WebCommit(webSet(WebCur, key, value, f), "set", key, value, <<>>, f)

WebRemove ==
    \E key \in LookupKeys, throws \in BOOLEAN :
      LET f == IF throws THEN [NoWebFaults EXCEPT !.removeItem = {key}] ELSE NoWebFaults
      IN  WebCommit(webRemove(WebCur, key, f), "remove", key, Null, <<>>, f)

WebGetAll ==
    \E f \in GetAllFaults :
      WebCommit(webGetAll(WebCur, f), "getAll", Null, Null, <<>>, f)

WebSetAll ==
    \E values \in Objects, f \in SetAllFaults :
      WebCommit(webSetAll(WebCur, values, f), "setAll", Null, Null, values, f)

WebClear ==
    \E throws \in BOOLEAN :
      LET f == [NoWebFaults EXCEPT !.clear = throws]
      IN  WebCommit(webClear(WebCur, f), "clear", Null, Null, <<>>, f)

WebNext ==
    \/ WebGet
    \/ WebSet
    \/ WebRemove
    \/ WebGetAll
    \/ WebSetAll
    \/ WebClear

SpecWebStorage == WebInit /\ [][WebNext]_vars

\* the entries of the Storage object that precede the first key whose
\* getItem throws
RECURSIVE gatheredSoFar(_, _)
gatheredSoFar(entries, failing) ==
    IF entries = <<>> \/ Head(entries)[1] \in failing THEN <<>>
    ELSE <<Head(entries)>> \o gatheredSoFar(Tail(entries), failing)

Attempted(method) == {wlast.calls[i][2] : i \in {j \in DOMAIN wlast.calls : wlast.calls[j][1] = method}}

\* C29: when calls on the underlying Storage throw, no adapter method
\* throws; get returns null, getAll returns the entries gathered before the
\* failure, and in setAll every key of the given mapping is still attempted:
\* each one is read, and each one whose read and write do not fail ends up
\* stored with the given value.
C29_FailuresAbsorbed ==
    /\ wlast.op \in {"get", "set", "remove", "getAll", "setAll", "clear"} => ~wlast.threw
    /\ wlast.op = "get" /\ wlast.f # NoWebFaults => wlast.ret = Null
    /\ wlast.op = "getAll" =>
         wlast.retAll = (IF wlast.f.length THEN <<>>
                         ELSE objectFromEntries(gatheredSoFar(items, wlast.f.getItem)))
    /\ wlast.op = "setAll" =>
         \A k \in DOMAIN wlast.values :
           /\ k \in Attempted("getItem")
           /\ k \notin wlast.f.getItem \cup wlast.f.setItem =>
                storageGetItem(items, k) = wlast.values[k]

\* the write of k1 fails and k2 is written all the same
C29_Witness ==
    /\ wlast.op = "setAll"
    /\ wlast.values = [k1 |-> "a", k2 |-> "b"]
    /\ wlast.f.setItem = {"k1"}
    /\ storageGetItem(items, "k1") = Null
    /\ storageGetItem(items, "k2") = "b"


\* C30 (as stated by the test): for a store over an empty backend, get(k)
\* for a key k that does not exist returns undefined.
\* Violated: get(key) ends in `?? null`, so the undefined of the property
\* read never reaches the caller; the store returns null.
C30_GetAbsentIsUndefined ==
    /\ vlast.op = "get"
    /\ vlast.key \in VKeys
    /\ storage = <<>>
    /\ snapshot = <<>>
    => vlast.ret = Undefined


----------------------------------------------------------------------------
(* Key store: which sets reach the chain, and failing writes and removes.  *)

\* The calls a complete broadcast of value makes: one set per adapter, in
\* chain order.
Broadcast(chain, value) ==
    [i \in DOMAIN chain |-> [a |-> i, m |-> "set", v |-> value]]

\* The adapter whose set (remove) throws during the last operation.
Thrower(failing) == CHOOSE i \in failing : TRUE

\* C31: set(v) over adapters whose set does not throw calls adapter.set
\* exactly when v differs from the container's previous value and from what
\* the chain read reports at commit time; then it calls set(key, v) once on
\* every adapter in chain order, otherwise it calls no adapter's set.
C31_RedundantWriteSuppression ==
    [][ last'.op = "set" /\ last'.f.set = {} =>
          IF /\ last'.arg # internalStore
             /\ last'.arg # readFromAdapters(adapters, last'.f.get).value
          THEN last'.calls = Broadcast(adapters, last'.arg)
          ELSE last'.calls = <<>> ]_vars

\* C31 witness: set("b") over [a, a] wrote "b" to both adapters, in order.
C31_Witness ==
    /\ last.op = "set"
    /\ last.arg = "b"
    /\ last.f = NoFaults
    /\ last.calls = Broadcast(adapters, "b")
    /\ Len(adapters) = 2

\* C32 as stated: after a set(v) whose broadcast failed at adapter i, the
\* container holds v and every adapter after i disagrees with it.
C32_LaterAdaptersDisagree ==
    last.op = "set" /\ last.threw =>
        /\ internalStore = last.arg
        /\ \A j \in Chain : j > Thrower(last.f.set) => adapters[j] # internalStore

\* C32: when adapter i's set throws during the broadcast of set(v), set(v)
\* throws; the adapters before i hold v, adapter i and the adapters after it
\* are not written and keep what they held, and the container holds v.
C32_WriteFailurePropagates ==
    [][ last'.op = "set" =>
          /\ last'.threw <=>
               /\ last'.f.set # {}
               /\ last'.arg # internalStore
               /\ last'.arg # readFromAdapters(adapters, last'.f.get).value
          /\ last'.threw =>
               LET i == Thrower(last'.f.set)
               IN  /\ last'.calls = SubSeq(Broadcast(adapters, last'.arg), 1, i)
                   /\ \A j \in DOMAIN adapters :
                        adapters'[j] = (IF j < i THEN last'.arg ELSE adapters[j])
                   /\ internalStore' = last'.arg ]_vars

\* C32 witness: set("b") over [a, a] with adapter 1 throwing: the container
\* holds "b", both adapters still hold "a".
C32_Witness ==
    /\ last.op = "set"
    /\ last.threw
    /\ last.arg = "b"
    /\ last.f.set = {1}
    /\ adapters = <<"a", "a">>
    /\ internalStore = "b"

\* C33: when adapter i's remove throws during remove(), remove() throws, the
\* adapters before i are emptied, adapter i and the adapters after it keep
\* their value, the container keeps its previous value and the suppression
\* flag is false.
C33_RemoveFailure ==
    [][ last'.op = "remove" =>
          /\ last'.threw <=> last'.f.remove # {}
          /\ last'.threw =>
               LET i == Thrower(last'.f.remove)
               IN  /\ \A j \in DOMAIN adapters :
                        adapters'[j] = (IF j < i THEN Null ELSE adapters[j])
                   /\ \A c \in DOMAIN last'.calls :
                        last'.calls[c] = [a |-> c, m |-> "remove", v |-> Null]
                   /\ Len(last'.calls) = i
                   /\ internalStore' = internalStore
                   /\ isInternalUpdate' = FALSE ]_vars

\* C33 witness: remove() over [a, b] with adapter 1 throwing left the
\* container at "a" and both adapters as they were.
C33_Witness ==
    /\ last.op = "remove"
    /\ last.threw
    /\ last.f.remove = {1}
    /\ adapters = <<"a", "b">>
    /\ internalStore = "a"
    /\ ~isInternalUpdate


----------------------------------------------------------------------------
(* Key store under re-entrancy.                                            *)
(*                                                                         *)
(* Two things call back into the store while one of its operations runs:   *)
(* an observer of $value, which the atom notifies after the mirror         *)
(* listener on every commit, and a primary adapter that calls its          *)
(* subscribers from inside its own set and remove (the variable            *)
(* notifying).  Adapters do not throw here.                                *)
(*                                                                         *)
(* One observer is subscribed to $value.  What it does is an input of the  *)
(* operation (the record react): at its react.at-th notification it        *)
(* returns ("none"), throws ("throw") or calls store.set(react.v) ("set"). *)
(*                                                                         *)
(* s carries, besides the store's fields: stack, the store operations      *)
(* being executed, outermost first; notes, one entry per notification of   *)
(* the observer; sets, one entry per store.set call; flagSets, how often   *)
(* isInternalUpdate was assigned true; depth and diverged, the nesting of  *)
(* sync() calls and whether it went beyond MaxNesting.                     *)

\* Deepest nesting of sync() calls followed before an operation is taken
\* not to terminate.
MaxNesting == 3

Reacts ==
    {[do |-> "none", at |-> 1, v |-> Null]}
      \cup [do : {"set"}, at : 1..2, v : Values]
      \cup [do : {"throw"}, at : 1..2, v : {Null}]

Passive == [do |-> "none", at |-> 1, v |-> Null]

RECURSIVE reSync(_)
RECURSIVE reDeliver(_, _)
RECURSIVE reWriteFrom(_, _, _)
RECURSIVE reRemoveFrom(_, _)
RECURSIVE reListener(_, _)
RECURSIVE reObserver(_, _)
RECURSIVE reAtomSet(_, _)
RECURSIVE reSet(_, _)

\* The callback on() registered, called once per subscription with the
\* store's key.
reDeliver(s, times) ==
    IF times = 0 \/ s.threw THEN s
    ELSE reDeliver(reSync(s), times - 1)

\* The primary adapter telling its subscribers of a change it has just made.
reNotify(s, i) ==
    IF i = 1 /\ s.notifying THEN reDeliver(s, s.subs[1]) ELSE s

reWriteFrom(s, i, value) ==
    IF i > Len(s.adapters) \/ s.threw THEN s
    ELSE LET called == [s EXCEPT !.calls = Append(@, [a |-> i, m |-> "set", v |-> value]),
                                 !.adapters[i] = value]
         IN  reWriteFrom(reNotify(called, i), i + 1, value)

reRemoveFrom(s, i) ==
    IF i > Len(s.adapters) \/ s.threw THEN s
    ELSE LET called == [s EXCEPT !.calls = Append(@, [a |-> i, m |-> "remove", v |-> Null]),
                                 !.adapters[i] = Null]
         IN  reRemoveFrom(reNotify(called, i), i + 1)

\* The callback registered with $internalStore.listen.
reListener(s, value) ==
    IF s.isInternalUpdate THEN s
    ELSE LET storageValue == readFromAdapters(s.adapters, {})
         IN  IF value # Null /\ value # storageValue.value
             THEN reWriteFrom(s, 1, value)
             ELSE s

\* The observer of $value being notified of value.
reObserver(s, value) ==
    LET noted == [s EXCEPT !.notes = Append(@, [v      |-> value,
                                                flag   |-> s.isInternalUpdate,
                                                chain  |-> s.adapters,
                                                within |-> s.stack])]
    IN  IF s.react.at # Len(noted.notes) THEN noted
        ELSE IF s.react.do = "throw" THEN [noted EXCEPT !.threw = TRUE]
        ELSE IF s.react.do = "set" THEN reSet(noted, s.react.v)
        ELSE noted

\* $internalStore.set(newValue): no-op on an identical value; otherwise the
\* mirror listener runs, then the observer.  A throw ends the notification.
reAtomSet(s, newValue) ==
    IF s.internalStore = newValue THEN s
    ELSE LET mirrored == reListener([s EXCEPT !.internalStore = newValue], newValue)
         IN  IF mirrored.threw THEN mirrored ELSE reObserver(mirrored, newValue)

reSet(s, value) ==
    LET t == reAtomSet([s EXCEPT !.stack = Append(@, "set")], value)
    IN  [t EXCEPT !.stack = s.stack,
                  !.sets = Append(@, [v      |-> value,
                                      prev   |-> s.internalStore,
                                      read   |-> readFromAdapters(s.adapters, {}).value,
                                      within |-> s.stack,
                                      calls  |-> SubSeq(t.calls, Len(s.calls) + 1,
                                                        Len(t.calls))])]

\* A remove that empties the container before the adapters.
reRemove_ContainerFirst(s) ==
    LET entered == [s EXCEPT !.stack = Append(@, "remove"),
                             !.isInternalUpdate = TRUE,
                             !.flagSets = @ + 1]
        t == reAtomSet(entered, Null)
        removed == reRemoveFrom([t EXCEPT !.isInternalUpdate = FALSE], 1)
    IN  [removed EXCEPT !.stack = s.stack]

reRemove(s) ==
    LET removed == reRemoveFrom([s EXCEPT !.stack = Append(@, "remove")], 1)
    IN  IF removed.threw THEN [removed EXCEPT !.stack = s.stack]
        ELSE LET t == reAtomSet([removed EXCEPT !.isInternalUpdate = TRUE,
                                                !.flagSets = @ + 1], Null)
             IN  [t EXCEPT !.isInternalUpdate = FALSE,             \* finally
                           !.stack = s.stack]

\* A sync that resets the flag after the commit, with no finally.
reSync_NoFinally(s) ==
    LET newValue == readFromAdapters(s.adapters, {})
    IN  IF newValue.value = s.internalStore THEN s
        ELSE LET t == reAtomSet([s EXCEPT !.isInternalUpdate = TRUE,
                                          !.flagSets = @ + 1,
                                          !.stack = Append(@, "sync")],
                                newValue.value)
             IN  [t EXCEPT !.isInternalUpdate = t.threw,
                           !.stack = s.stack]

reSync(s) ==
    IF s.depth >= MaxNesting THEN [s EXCEPT !.diverged = TRUE]
    ELSE LET newValue == readFromAdapters(s.adapters, {})
         IN  IF newValue.value = s.internalStore THEN s
             ELSE LET t == reAtomSet([s EXCEPT !.isInternalUpdate = TRUE,
                                               !.flagSets = @ + 1,
                                               !.depth = @ + 1,
                                               !.stack = Append(@, "sync")],
                                     newValue.value)
                  IN  [t EXCEPT !.isInternalUpdate = FALSE,        \* finally
                                !.depth = s.depth,
                                !.stack = s.stack]

\* Code other than this store calls adapter i's set or remove.
reExternal(s, i, value) ==
    reNotify([s EXCEPT !.adapters[i] = value], i)

\* The store's state at the start of an operation whose observer does react.
ReCur(react) ==
    [adapters         |-> adapters,
     defaultValue     |-> defaultValue,
     internalStore    |-> internalStore,
     isInternalUpdate |-> isInternalUpdate,
     on               |-> listenerOn,
     subs             |-> subs,
     unsubscribeFns   |-> unsubscribeFns,
     notifying        |-> notifying,
     react            |-> react,
     calls            |-> <<>>,
     notes            |-> <<>>,
     sets             |-> <<>>,
     stack            |-> <<>>,
     flagSets         |-> 0,
     depth            |-> 0,
     diverged         |-> FALSE,
     threw            |-> FALSE]

ReCommit(s, op, arg) ==
    /\ adapters' = s.adapters
    /\ internalStore' = s.internalStore
    /\ isInternalUpdate' = s.isInternalUpdate
    /\ last' = [op |-> op, arg |-> arg, react |-> s.react,
                prev |-> internalStore,
                read |-> readFromAdapters(adapters, {}).value,
                threw |-> s.threw, calls |-> s.calls, notes |-> s.notes,
                sets |-> s.sets, flagSets |-> s.flagSets,
                diverged |-> s.diverged]
    /\ UNCHANGED <<defaultValue, listenerOn, subs, unsubscribeFns, pristine,
                   faultFree, phase, notifying, valuesVars, utilVars>>

ReInit ==
    \E chain \in Chains, listen \in BOOLEAN, dv \in ValueOrNull, n \in BOOLEAN :
        LET s == createStorageStore(chain, [listen |-> listen, defaultValue |-> dv],
                                    NoFaults)
        IN  /\ defaultValue = dv
            /\ adapters = s.adapters
            /\ internalStore = s.internalStore
            /\ isInternalUpdate = s.isInternalUpdate
            /\ listenerOn = s.on
            /\ subs = s.subs
            /\ unsubscribeFns = s.unsubscribeFns
            /\ notifying = n
            /\ pristine = FALSE
            /\ faultFree = TRUE
            /\ phase = "initial"
            /\ last = [op |-> "construct"]
            /\ ValuesIdle
            /\ UtilIdle

\* An observer that throws is kept away from the notifying adapter, whose
\* handling of a throwing subscriber is not part of the store.
ReactsHere == IF notifying THEN {r \in Reacts : r.do # "throw"} ELSE Reacts

ReSet ==
    \E value \in Values, react \in ReactsHere :
        ReCommit(reSet(ReCur(react), value), "set", value)

ReRemove ==
    \E react \in ReactsHere :
        ReCommit(reRemove(ReCur(react)), "remove", Null)

ReSync ==
    \E react \in ReactsHere :
        ReCommit(reSync(ReCur(react)), "sync", Null)

ReExternalWrite ==
    \E i \in DOMAIN adapters, value \in ValueOrNull, react \in ReactsHere :
        /\ value # adapters[i]
        /\ ReCommit(reExternal(ReCur(react), i, value), "external", value)

ReNext ==
    \/ ReSet
    \/ ReRemove
    \/ ReSync
    \/ ReExternalWrite

SpecReentrant == ReInit /\ [][ReNext]_vars


----------------------------------------------------------------------------
(* Key store under re-entrancy: properties.                                *)

Operated == last.op # "construct"

\* Entry e of sets is a set(v) that committed a string the chain did not
\* report at that moment.
Committed(e) == e.v # e.prev /\ e.v # e.read

\* Entry e's call made set(key, e.v) on adapter i.
WroteTo(e, i) ==
    \E c \in DOMAIN e.calls : e.calls[c] = [a |-> i, m |-> "set", v |-> e.v]

Suppressing(stack) == \E k \in DOMAIN stack : stack[k] \in {"sync", "remove"}

\* C34: every set(v) that commits a string the chain does not report writes
\* it to every adapter, whether the user calls it directly or an observer
\* of $value calls it while being notified of a commit made by sync() or
\* remove().
C34_NestedWriteMirrored ==
    Operated =>
        \A k \in DOMAIN last.sets :
            Committed(last.sets[k]) =>
                \A i \in Chain : WroteTo(last.sets[k], i)


\* The last operation called each adapter's set at most once and each
\* adapter's remove at most once.
EachAtMostOnce ==
    \A c, d \in DOMAIN last.calls :
        last.calls[c].a = last.calls[d].a /\ last.calls[c].m = last.calls[d].m
            => c = d

\* C35: with the listener on and a primary adapter that calls its
\* subscribers from inside its own set and remove, every set(v) and every
\* remove() terminates, calls each adapter at most once, and ends with
\* get() equal to what the chain read reports: v after set(v), null after
\* remove().
C35_NoEchoLoop ==
    /\ Operated
    /\ last.op \in {"set", "remove"}
    /\ listenerOn
    /\ notifying
    /\ last.react = Passive
    => /\ ~last.diverged
       /\ EachAtMostOnce
       /\ get(Cur) = last.arg
       /\ get(Cur) = readFromAdapters(adapters, {}).value


\* Note n is the observer being notified of the null that remove() itself
\* committed.
NullOfRemove(n) ==
    /\ n.v = Null
    /\ n.within # <<>>
    /\ n.within[Len(n.within)] = "remove"

\* C37: remove() calls remove on every adapter, in chain order, before it
\* sets the container to null: whenever the observer of $value is notified
\* of the null produced by remove(), every adapter reports null for the key.
C37_RemoveOrdering ==
    Operated =>
        /\ \A k \in DOMAIN last.notes :
               NullOfRemove(last.notes[k]) =>
                   \A i \in Chain : last.notes[k].chain[i] = Null
        /\ last.op = "remove" =>
               last.calls = [i \in Chain |-> [a |-> i, m |-> "remove", v |-> Null]]

\* C37 witness: remove() over two adapters, of which one held a value,
\* notified the observer of null once both had been emptied.
C37_Witness ==
    /\ Operated
    /\ last.op = "remove"
    /\ Len(adapters) = 2
    /\ last.read # Null
    /\ \E k \in DOMAIN last.notes :
           /\ NullOfRemove(last.notes[k])
           /\ last.notes[k].chain = <<Null, Null>>

\* C38: isInternalUpdate is false whenever no remove() or sync() is being
\* executed: in every state between two operations, whatever the way the
\* last one ended (an observer throwing during the commit included), and at
\* every notification made outside remove() and sync().  A sync() that
\* finds the chain read equal to the container never sets it.
C38_FlagTransient ==
    /\ ~isInternalUpdate
    /\ Operated =>
         /\ \A k \in DOMAIN last.notes :
                last.notes[k].flag => Suppressing(last.notes[k].within)
         /\ last.op = "sync" /\ last.read = last.prev => last.flagSets = 0

\* C38 witness: the observer threw while sync() was committing the backend's
\* value; the flag had been set and is false again.
C38_Witness ==
    /\ Operated
    /\ last.op = "sync"
    /\ last.threw
    /\ last.flagSets = 1
    /\ last.notes # <<>>
    /\ last.notes[1].flag
    /\ ~isInternalUpdate


----------------------------------------------------------------------------
(* Values store over an adapter that notifies after its own setAll.        *)

ValuesMutators == {"set", "update", "updateFn", "remove", "clear"}

\* C36 as stated: with the listener on and an adapter that calls its
\* subscribers after each of its own completed setAll calls, every set,
\* update, remove and clear ends after exactly one setAll call with the
\* snapshot structurally equal to adapter.getAll().
C36_ExactlyOneSetAll ==
    vlast.op \in ValuesMutators /\ dollarOn /\ valuesNotifying =>
        /\ vlast.calls = <<"setAll">>
        /\ shallowEqual(snapshot, adapterGetAll(ValuesCur))

\* C36: with the listener on and an adapter that calls its subscribers after
\* each of its own completed setAll calls, a set, update, remove or clear
\* that changes the snapshot commits once (the sync() run by the adapter's
\* notification commits nothing), calls setAll once when the adapter does
\* not already report the new snapshot, and ends with the snapshot
\* structurally equal to adapter.getAll(); one that leaves the snapshot
\* unchanged commits nothing and calls no setAll.
C36_ValuesNoEchoLoop ==
    [][ vlast'.op \in ValuesMutators /\ dollarOn /\ valuesNotifying =>
          /\ vlast'.commits = (IF shallowEqual(snapshot', snapshot) THEN 0 ELSE 1)
          /\ vlast'.calls = (IF /\ vlast'.commits = 1
                                /\ ~shallowEqual(snapshot', storage)
                             THEN <<"setAll">> ELSE <<>>)
          /\ vlast'.commits = 1 =>
                shallowEqual(snapshot', adapterGetAll(ValuesCur)') ]_vars

\* C36 witness: set(k, v) committed once, called setAll once and left the
\* backend equal to the snapshot, the adapter's notification included.
C36_Witness ==
    /\ vlast.op = "set"
    /\ dollarOn
    /\ valuesNotifying
    /\ valuesSubs = 1
    /\ vlast.calls = <<"setAll">>
    /\ vlast.commits = 1
    /\ snapshot = storage
    /\ Cardinality(DOMAIN snapshot) = 2


----------------------------------------------------------------------------
(* Values store over a web-storage adapter.                                *)
(*                                                                         *)
(* w is the Storage object with the record of the adapter calls (as in     *)
(* the adapter's own specification) and the store's snapshot and commits.  *)
(* The Storage object does not throw here.                                 *)

webBackedGetAll(w) == webGetAll(w, NoWebFaults).retAll

\* The observer registered with $internalStore.subscribe.
webBackedMirror(w, values) ==
    LET storageValues == webBackedGetAll(w)
    IN  IF shallowEqual(values, storageValues) THEN w
        ELSE webSetAll(w, values, NoWebFaults)

webBackedUpdateValue(w, newValue) ==
    IF shallowEqual(newValue, w.snapshot) THEN w
    ELSE webBackedMirror([w EXCEPT !.snapshot = newValue, !.commits = @ + 1],
                         newValue)

webBackedStore(entries) ==
    LET w0 == [items |-> entries, calls |-> <<>>, threw |-> FALSE, ret |-> Null,
               retAll |-> <<>>, snapshot |-> <<>>, commits |-> 0]
        w1 == [w0 EXCEPT !.snapshot = webBackedGetAll(w0)]
    IN  webBackedMirror(w1, w1.snapshot)

WebBackedCur ==
    [items |-> items, calls |-> <<>>, threw |-> FALSE, ret |-> Null,
     retAll |-> <<>>, snapshot |-> snapshot, commits |-> 0]

WebBackedCommit(w, op, key, value, values, keys) ==
    /\ items' = w.items
    /\ snapshot' = w.snapshot
    /\ vlast' = [op |-> op, key |-> key, value |-> value, values |-> values,
                 keys |-> keys, commits |-> w.commits]
    /\ UNCHANGED <<storage, dollarOn, unsubscribe, valuesSubs, valuesPhase,
                   valuesNotifying, wlast, keyVars, eqVars, eventVars, memVars>>

WebBackedInit ==
    /\ \E entries \in {<<>>, <<<<"k1", "a">>>>} :
         LET w == webBackedStore(entries)
         IN  /\ items = w.items
             /\ snapshot = w.snapshot
    /\ vlast = [op |-> "construct"]
    /\ wlast = [op |-> "none"]
    /\ storage = <<>>
    /\ dollarOn = FALSE
    /\ unsubscribe = FALSE
    /\ valuesSubs = 0
    /\ valuesPhase = "initial"
    /\ valuesNotifying = FALSE
    /\ KeyIdle
    /\ EqIdle
    /\ EventIdle
    /\ MemIdle

WebBackedSet ==
    \E key \in VKeys, value \in Values :
      WebBackedCommit(webBackedUpdateValue(WebBackedCur, spread(snapshot, key :> value)),
                      "set", key, value, <<>>, {})

WebBackedUpdate ==
    \E values \in Objects :
      WebBackedCommit(webBackedUpdateValue(WebBackedCur, spread(snapshot, values)),
                      "update", Null, Null, values, {})

WebBackedRemove ==
    \E keysToDelete \in SUBSET LookupKeys :
      WebBackedCommit(webBackedUpdateValue(WebBackedCur,
                                           deleteKeys(snapshot, keysToDelete)),
                      "remove", Null, Null, <<>>, keysToDelete)

WebBackedClear ==
    WebBackedCommit(webBackedUpdateValue(WebBackedCur, <<>>),
                    "clear", Null, Null, <<>>, {})

WebBackedSync ==
    WebBackedCommit(webBackedUpdateValue(WebBackedCur, webBackedGetAll(WebBackedCur)),
                    "sync", Null, Null, <<>>, {})

\* Another writer on the same Storage object sets or removes one key.
WebBackedExternalWrite ==
    \E key \in LookupKeys, value \in ValueOrNull :
      LET written == IF value = Null THEN webRemove(WebBackedCur, key, NoWebFaults)
                     ELSE webSet(WebBackedCur, key, value, NoWebFaults)
      IN  WebBackedCommit(written, "external", key, value, <<>>, {})

WebBackedNext ==
    \/ WebBackedSet
    \/ WebBackedUpdate
    \/ WebBackedRemove
    \/ WebBackedClear
    \/ WebBackedSync
    \/ WebBackedExternalWrite

SpecValuesWeb == WebBackedInit /\ [][WebBackedNext]_vars

\* C39: whenever set, update, remove or clear changes the snapshot, on
\* return adapter.getAll() is structurally equal to the new snapshot: every
\* backend key absent from the snapshot has been deleted and every
\* differing value overwritten.
C39_CommitReplacesBackend ==
    vlast.op \in {"set", "update", "remove", "clear"} /\ vlast.commits = 1 =>
        /\ shallowEqual(webBackedGetAll(WebBackedCur), snapshot)
        /\ \A i \in DOMAIN items : items[i][1] \in DOMAIN snapshot


----------------------------------------------------------------------------
(* Web-storage adapter: calling an unsubscribe thunk again.                *)

\* C40: calling the thunk returned by subscribe(cb) a second or later time
\* has no effect on the subscriptions active at that moment (the listeners
\* and the handler registered on window stay as they are), a later
\* subscription of the same callback included.
C40_UnsubscribeIdempotent ==
    [][ elast'.op = "unsubscribe" /\ elast'.again =>
          listeners' = listeners /\ attached' = attached ]_vars

============================================================================
